---- MODULE Spec2Model ----
(***************************************************************************)
(* Route planner (src/components/route-planner.tsx) and the route REST     *)
(* handlers (src/app/api/routes).                                          *)
(*                                                                         *)
(* Planner: the React state of RoutePlanner after mount (maps, places and  *)
(* directions libraries loaded, autocompletes initialised).  Every event   *)
(* handler is one action; an asynchronous handler is split at its await,   *)
(* the values its closure captured being kept in the in-flight record.     *)
(*                                                                         *)
(* Numbers: decimal degrees are kept in units of 1/3600 degree, so that    *)
(* degrees + minutes/60 + seconds/3600 is the exact integer                *)
(* 3600*degrees + 60*minutes + seconds.                                    *)
(*                                                                         *)
(* Display-only state is left out: waypoint name/address, photo url and    *)
(* description, and activeMarker, which only selects the InfoWindow shown  *)
(* (a handler reached through an InfoWindow is modelled together with the  *)
(* marker click that opens it).  Toasts are kept by title.                 *)
(***************************************************************************)
EXTENDS Integers, Sequences, FiniteSets, TLC

\* ------------------------------------------------------------ constants
MAX_INTERMEDIATE_WAYPOINTS == 8

\* --------------------------------------------------------------- bounds
\* waypoints ever created in a behaviour of Spec (photo reconciliation)
MaxWaypoints == 3
\* files ever selected in a behaviour of Spec
MaxFiles == 2
\* files in one selection
MaxBatch == 2
\* requests the route API receives in a behaviour of SpecApi
MaxRequests == 3
\* reverse-geocode callbacks in flight at once in a behaviour of Spec
MaxPending == 1
\* waypoints ever created in a behaviour of SpecCap (waypoint limit)
MaxCapWaypoints == 11
\* reverse-geocode callbacks in flight at once in a behaviour of SpecCap
MaxCapPending == 2
\* waypoints ever created in a behaviour of SpecDirections
MaxRouteWaypoints == 4
\* directions requests in flight at once in a behaviour of SpecDirections
MaxRoutesPending == 2
\* waypoints ever created in a behaviour of SpecContext
MaxContextWaypoints == 2
\* fetches of the share view in flight at once in a behaviour of SpecView
MaxViewFetches == 2
\* calls of dbConnect in a behaviour of SpecConnect
MaxConnectCalls == 5
\* map clicks in a behaviour of SpecClicks
MaxClickWaypoints == 6
\* reverse-geocode callbacks in flight at once in a behaviour of SpecClicks
MaxClickPending == 3
\* largest degree, minute and second of the triples converted in SpecDms, next to 59
MaxDmsComponent == 2
\* waypoints ever created in a behaviour of SpecSession (API-backed planner)
MaxSessionWaypoints == 3

VARIABLES
    origin,                      \* Waypoint or NoWaypoint (null)
    destination,                 \* Waypoint or NoWaypoint (null)
    intermediateWaypoints,       \* sequence of Waypoint
    photos,                      \* sequence of Photo
    isUploadingPhotos,           \* BOOLEAN
    photoUploadWaypointContext,  \* [id, location] or NoContext (null)
    savedRouteId,                \* id of the last save, or NoId (null)
    pendingClicks,               \* reverse-geocode callbacks in flight, with their closures
    upload,                      \* the file selection being processed, with its closure
    results,                     \* per file of the last processed selection: file, context, photo
    toasts,                      \* titles of the toasts the last handler raised
    photosToRemove,              \* ids of the photos the last handler's removeWaypoint cascaded to
    nextWaypointId,              \* ids handed out so far + 1 (Date.now()/Math.random() ids are unique)
    nextPhotoId,
    store,                       \* the documents of the routes collection
    pendingUpserts,              \* bodies of upserts that matched no document and have not inserted yet
    response,                    \* the last response a handler sent, with its request
    viewRoute,                   \* what fetchRouteData last returned to the share view
    clock,                       \* requests received so far; Date.now() of the store
    nextObjectId,                \* ObjectIds generated so far + 1
    viewError,                   \* the error message of the share view ("" for null)
    routeName,                   \* the route name typed into the planner, as its characters
    isSaving,                    \* BOOLEAN
    saveRequest,                 \* the save the API-backed planner has in flight
    nextRouteId,                 \* route ids generated so far + 1
    alertDialog,                 \* id of the marker whose "Remove ...?" dialog is open, or NoId
    conversion,                  \* a DMS tag with its reference, and what convertDMSToDD made of it
    directions,                  \* the DirectionsResult rendered, or NoDirections (null)
    pendingRoutes,               \* directionsService.route requests in flight
    cached,                      \* global.mongoose: conn and promise (0 for null)
    connects,                    \* per mongoose.connect call: "pending", "resolved" or "rejected"
    dbCalls,                     \* the calls of dbConnect made, each with how far it is
    DUMMY_USERS,                 \* the own properties of DUMMY_USERS: username -> password
    authorizeResult,             \* what authorize last returned, with its credentials
    routeIdParam,                \* params.routeId of the share view
    loading,                     \* loading of the share view
    viewFetches,                 \* fetchRouteData calls of the share view in flight
    fileDialog                   \* the file dialog of the hidden input: open, and the button that opened it last

plannerVars == << origin, destination, intermediateWaypoints, photos,
                  isUploadingPhotos, photoUploadWaypointContext, savedRouteId,
                  pendingClicks, upload, results, toasts, photosToRemove,
                  nextWaypointId, nextPhotoId >>

apiVars == << store, pendingUpserts, response, viewRoute, clock, nextObjectId, viewError >>

sessionVars == << routeName, isSaving, saveRequest, nextRouteId >>

directionsVars == << directions, pendingRoutes >>

serverVars == << cached, connects, dbCalls, DUMMY_USERS, authorizeResult >>

pageVars == << routeIdParam, loading, viewFetches, fileDialog >>

\* the state of the API-backed planner's save, of the confirm dialog, of the
\* EXIF conversion and of the directions effect
extVars == << sessionVars, alertDialog, conversion, directionsVars, serverVars, pageVars >>

\* ------------------------------------------------------------ JS values
\* a JS number (finite, in 1/3600 degree), NaN, or null
Num(x) == [t |-> "num", v |-> x]
NaN == [t |-> "nan", v |-> 0]
Null == [t |-> "null", v |-> 0]

JsAdd(a, b) == IF a.t = "num" /\ b.t = "num" THEN Num(a.v + b.v) ELSE NaN
JsScale(a, k) == IF a.t = "num" THEN Num(a.v * k) ELSE NaN
JsNeg(a) == IF a.t = "num" THEN Num(0 - a.v) ELSE NaN

\* a DMS tag: undefined, or an array of numbers
UndefinedDms == [def |-> FALSE, arr |-> << >>]
Dms(arr) == [def |-> TRUE, arr |-> arr]

\* convertDMSToDD(dms, ref): null when dms or ref is missing or dms has not 3
\* components; else degrees + minutes/60 + seconds/3600, negated for S and W.
\* ref "" stands for undefined (and for the empty string: both are falsy).
\* x ?? 0
OrZero(x) == IF x.t = "null" THEN Num(0) ELSE x

\* a conversion that negates for 'S' alone
convertDMSToDDSouthOnly(dms, ref) ==
    IF ~dms.def \/ ref = "" \/ Len(dms.arr) # 3
    THEN Null
    ELSE LET dd == JsAdd(JsAdd(JsScale(OrZero(dms.arr[1]), 3600),
                               JsScale(OrZero(dms.arr[2]), 60)),
                         OrZero(dms.arr[3]))
         IN  IF ref = "S" THEN JsNeg(dd) ELSE dd

convertDMSToDD(dms, ref) ==
    IF ~dms.def \/ ref = "" \/ Len(dms.arr) # 3
    THEN Null
    ELSE LET dd == JsAdd(JsAdd(JsScale(OrZero(dms.arr[1]), 3600),
                               JsScale(OrZero(dms.arr[2]), 60)),
                         OrZero(dms.arr[3]))
         IN  IF ref = "S" \/ ref = "W" THEN JsNeg(dd) ELSE dd

\* ---------------------------------------------------------------- files
\* What the browser and exif-js report for a selected file: whether FileReader
\* reads it, whether it loads as an image, and its four GPS tags.
GpsTags(lat, latRef, lon, lonRef) ==
    [lat |-> lat, latRef |-> latRef, lon |-> lon, lonRef |-> lonRef]

LatTags == { UndefinedDms,
             Dms(<< Num(37), Num(46) >>),
             Dms(<< Num(37), Num(46), Num(30) >>),
             Dms(<< NaN, Num(0), Num(0) >> ) }
LonTag == Dms(<< Num(122), Num(25), Num(10) >>)

CompleteTags == GpsTags(Dms(<< Num(37), Num(46), Num(30) >>), "N", LonTag, "W")
SouthernTags == GpsTags(Dms(<< Num(37), Num(46), Num(30) >>), "S", LonTag, "W")

AbsentTags == GpsTags(UndefinedDms, "N", LonTag, "W")

TagChoices == { GpsTags(lat, "N", LonTag, "W") : lat \in LatTags } \cup { SouthernTags }

\* the files a selection is made of: one per tag choice, read and loaded, a file
\* that FileReader cannot read, and a file with complete tags that does not
\* load as an image
Files ==
    { [readable |-> TRUE, decodable |-> TRUE, gps |-> g] : g \in TagChoices }
    \cup { [readable |-> FALSE, decodable |-> TRUE, gps |-> AbsentTags],
           [readable |-> TRUE, decodable |-> FALSE, gps |-> CompleteTags] }

\* extractLocationFromPhoto(file): resolves with Coordinates, or rejects
Rejected == [ok |-> FALSE, lat |-> 0, lng |-> 0]
Resolved(lat, lng) == [ok |-> TRUE, lat |-> lat, lng |-> lng]

\* the callback of EXIF.getData on the tags g of the loaded image
gpsLocation(g) ==
    IF g.lat.def /\ g.lon.def /\ g.latRef # "" /\ g.lonRef # ""
    THEN LET lat == convertDMSToDD(g.lat, g.latRef)
             lng == convertDMSToDD(g.lon, g.lonRef)
         IN  IF lat.t = "num" /\ lng.t = "num"
             THEN Resolved(lat.v, lng.v)
             ELSE Rejected                               \* could not parse valid GPS data
    ELSE Rejected                                        \* no complete GPS data

extractLocationFromPhoto(file) ==
    IF ~file.readable THEN Rejected                      \* reader.onerror
    ELSE IF ~file.decodable THEN Rejected                \* img.onerror
    ELSE gpsLocation(file.gps)

\* ------------------------------------------------------- planner records
NoId == << "none", 0 >>
WaypointIdOf(n) == << "wp", n >>
PhotoIdOf(n) == << "photo", n >>

Coordinates(lat, lng) == [lat |-> lat, lng |-> lng]
NoWaypoint == [id |-> NoId, lat |-> 0, lng |-> 0]
Waypoint(id, lat, lng) == [id |-> id, lat |-> lat, lng |-> lng]

NoContext == [id |-> NoId, location |-> Coordinates(0, 0)]
NoPhoto == [id |-> NoId, location |-> Coordinates(0, 0), waypointId |-> NoId,
            locationSource |-> "none"]
NoUpload == [active |-> FALSE, files |-> << >>, context |-> NoContext]

\* where the map is clicked and what place search returns: the n-th point
\* chosen in a behaviour is a point of its own
ClickPoint(n) == Coordinates(136000 + n, 0 - (440700 + n))

RECURSIVE SeqToSet(_)
SeqToSet(s) == IF s = << >> THEN {} ELSE {Head(s)} \cup SeqToSet(Tail(s))

\* [origin, destination, ...intermediateWaypoints].filter(Boolean)
AllWaypoints ==
    (IF origin = NoWaypoint THEN {} ELSE {origin})
    \cup (IF destination = NoWaypoint THEN {} ELSE {destination})
    \cup SeqToSet(intermediateWaypoints)

WaypointIds == { w.id : w \in AllWaypoints }
PhotoIds == { p.id : p \in SeqToSet(photos) }

\* ----------------------------------------------------------------- Init
PlannerInit ==
    /\ origin = NoWaypoint
    /\ destination = NoWaypoint
    /\ intermediateWaypoints = << >>
    /\ photos = << >>
    /\ isUploadingPhotos = FALSE
    /\ photoUploadWaypointContext = NoContext
    /\ savedRouteId = NoId
    /\ pendingClicks = << >>
    /\ upload = NoUpload
    /\ results = << >>
    /\ toasts = {}
    /\ photosToRemove = {}
    /\ nextWaypointId = 1
    /\ nextPhotoId = 1

\* useState('My Awesome Route')
DefaultRouteName ==
    << "M", "y", " ", "A", "w", "e", "s", "o", "m", "e", " ", "R", "o", "u", "t", "e" >>

\* no save in flight
NoSave == [stage |-> "none"]
\* no conversion made yet
NoConversion == [dms |-> UndefinedDms, ref |-> "", dd |-> Null, done |-> FALSE]
\* directions null
NoDirections == [ok |-> FALSE]

\* cached = { conn: null, promise: null }
NoCached == [conn |-> 0, promise |-> 0]
\* the file dialog has not been opened
NoDialog == [open |-> FALSE, by |-> "none"]
\* authorize has not been called
NoAuthorize == [called |-> FALSE]

\* the modules as loaded and the share view before its first effect
ServerInit ==
    /\ cached = NoCached
    /\ connects = << >>
    /\ dbCalls = << >>
    /\ DUMMY_USERS = [u \in {<< "a", "d", "m", "i", "n" >>} |->
                         << "p", "a", "s", "s", "w", "o", "r", "d" >>]
    /\ authorizeResult = NoAuthorize
    /\ routeIdParam = ""
    /\ loading = TRUE
    /\ viewFetches = << >>
    /\ fileDialog = NoDialog

ExtInit ==
    /\ ServerInit
    /\ routeName = DefaultRouteName
    /\ isSaving = FALSE
    /\ saveRequest = NoSave
    /\ nextRouteId = 1
    /\ alertDialog = NoId
    /\ conversion = NoConversion
    /\ directions = NoDirections
    /\ pendingRoutes = << >>

\* ------------------------------------------------------ waypoint editing
\* intermediateWaypoints.length as seen by the handlers that the autocomplete
\* effect registered: its dependency list leaves intermediateWaypoints out, so
\* they keep the array of the render in which the effect ran (the empty one).
StableIntermediateLength == 0

\* createWaypoint(place) with a fresh id
createWaypoint(pt) == Waypoint(WaypointIdOf(nextWaypointId), pt.lat, pt.lng)

\* handleSetOrigin / handleSetOriginStable
handleSetOrigin(pt) ==
    /\ origin' = createWaypoint(pt)
    /\ nextWaypointId' = nextWaypointId + 1
    /\ UNCHANGED << destination, intermediateWaypoints >>

\* handleSetDestination / handleSetDestinationStable
handleSetDestination(pt) ==
    /\ destination' = createWaypoint(pt)
    /\ nextWaypointId' = nextWaypointId + 1
    /\ UNCHANGED << origin, intermediateWaypoints >>

\* the guard of addIntermediateWaypoint, on the length its closure holds
LimitReached(closureLength) == closureLength >= MAX_INTERMEDIATE_WAYPOINTS

\* addIntermediateWaypoint(lat, lng, ...) of the render whose
\* intermediateWaypoints.length was closureLength; more are the toasts of the caller
addIntermediateWaypoint(closureLength, pt, more) ==
    IF LimitReached(closureLength)
    THEN /\ toasts' = {"Waypoint Limit Reached"}
         /\ UNCHANGED << origin, destination, intermediateWaypoints, nextWaypointId >>
    ELSE /\ intermediateWaypoints' = Append(intermediateWaypoints, createWaypoint(pt))
         /\ nextWaypointId' = nextWaypointId + 1
         /\ toasts' = more
         /\ UNCHANGED << origin, destination >>

photoVars == << photos, isUploadingPhotos, photoUploadWaypointContext, upload, nextPhotoId >>

\* handleMapClick(event): starts the reverse geocoding; the callback keeps the
\* origin, destination and intermediateWaypoints.length of this render
handleMapClick(pt, budget, maxPending) ==
    /\ Len(pendingClicks) < maxPending
    /\ nextWaypointId + Len(pendingClicks) <= budget
    /\ pendingClicks' = Append(pendingClicks,
           [point |-> pt, hasOrigin |-> origin # NoWaypoint,
            hasDestination |-> destination # NoWaypoint,
            length |-> Len(intermediateWaypoints)])
    /\ toasts' = {}
    /\ UNCHANGED << origin, destination, intermediateWaypoints, savedRouteId, nextWaypointId >>
    /\ results' = << >>
    /\ photosToRemove' = {}
    /\ UNCHANGED photoVars

RemoveAt(s, i) == SubSeq(s, 1, i - 1) \o SubSeq(s, i + 1, Len(s))

\* the geocoder's callback of the i-th click in flight
geocodeCallback(i) ==
    /\ i \in 1..Len(pendingClicks)
    /\ LET c == pendingClicks[i]
       IN  IF ~c.hasOrigin
           THEN handleSetOrigin(c.point) /\ toasts' = {"Origin Set"}
           ELSE IF ~c.hasDestination
           THEN handleSetDestination(c.point) /\ toasts' = {"Destination Set"}
           ELSE IF c.length < MAX_INTERMEDIATE_WAYPOINTS
           THEN addIntermediateWaypoint(c.length, c.point, {"Waypoint Added"})
           ELSE /\ toasts' = {"Waypoint Limit Reached"}
                /\ UNCHANGED << origin, destination, intermediateWaypoints, nextWaypointId >>
    /\ pendingClicks' = RemoveAt(pendingClicks, i)
    /\ UNCHANGED savedRouteId
    /\ results' = << >>
    /\ photosToRemove' = {}
    /\ UNCHANGED photoVars

\* place_changed of the origin autocomplete
handleSetOriginStable(pt, hasGeometry, budget) ==
    /\ nextWaypointId + Len(pendingClicks) <= budget
    /\ IF hasGeometry
       THEN handleSetOrigin(pt) /\ toasts' = {}
       ELSE /\ toasts' = {"Location not found"}
            /\ UNCHANGED << origin, destination, intermediateWaypoints, nextWaypointId >>
    /\ UNCHANGED << savedRouteId, pendingClicks >>
    /\ results' = << >>
    /\ photosToRemove' = {}
    /\ UNCHANGED photoVars

\* place_changed of the destination autocomplete
handleSetDestinationStable(pt, hasGeometry, budget) ==
    /\ nextWaypointId + Len(pendingClicks) <= budget
    /\ IF hasGeometry
       THEN handleSetDestination(pt) /\ toasts' = {}
       ELSE /\ toasts' = {"Location not found"}
            /\ UNCHANGED << origin, destination, intermediateWaypoints, nextWaypointId >>
    /\ UNCHANGED << savedRouteId, pendingClicks >>
    /\ results' = << >>
    /\ photosToRemove' = {}
    /\ UNCHANGED photoVars

\* place_changed of the intermediate autocomplete, whose input is disabled once
\* intermediateWaypoints.length >= MAX_INTERMEDIATE_WAYPOINTS
addIntermediateWaypointStable(pt, hasGeometry, budget) ==
    /\ nextWaypointId + Len(pendingClicks) <= budget
    /\ Len(intermediateWaypoints) < MAX_INTERMEDIATE_WAYPOINTS
    /\ IF hasGeometry
       THEN addIntermediateWaypoint(StableIntermediateLength, pt, {})
       ELSE /\ toasts' = {"Location not found"}
            /\ UNCHANGED << origin, destination, intermediateWaypoints, nextWaypointId >>
    /\ UNCHANGED << savedRouteId, pendingClicks >>
    /\ results' = << >>
    /\ photosToRemove' = {}
    /\ UNCHANGED photoVars

\* photosToRemove of removeWaypoint(id): photos.filter(...).map(p => p.id)
LinkedPhotoIds(ps, id) ==
    { p.id : p \in { q \in SeqToSet(ps) :
                       q.waypointId = id /\ q.locationSource = "waypoint" } }

\* a cascade that tells the photos to remove by locationSource alone
KeptPhotosOfNoWaypoint(ps, id) ==
    SelectSeq(ps, LAMBDA p : p.locationSource # "waypoint")

\* the photos removeWaypoint(id) keeps: prev.filter(p => !photosToRemove.includes(p.id))
KeptPhotos(ps, id) ==
    SelectSeq(ps, LAMBDA p : p.id \notin LinkedPhotoIds(ps, id))

\* removeWaypoint(id)
removeWaypoint(id) ==
    /\ id \in WaypointIds
    /\ IF origin.id = id
       THEN origin' = NoWaypoint /\ UNCHANGED << destination, intermediateWaypoints >>
       ELSE IF destination.id = id
       THEN destination' = NoWaypoint /\ UNCHANGED << origin, intermediateWaypoints >>
       ELSE /\ intermediateWaypoints' = SelectSeq(intermediateWaypoints, LAMBDA w : w.id # id)
            /\ UNCHANGED << origin, destination >>
    /\ photos' = KeptPhotos(photos, id)
    /\ photosToRemove' = LinkedPhotoIds(photos, id)
    /\ toasts' = { IF origin.id = id THEN "Origin Removed"
                   ELSE IF destination.id = id THEN "Destination Removed"
                   ELSE "Waypoint Removed" }
    /\ savedRouteId' = NoId
    /\ results' = << >>
    /\ UNCHANGED << isUploadingPhotos, photoUploadWaypointContext, upload,
                    nextPhotoId, pendingClicks, nextWaypointId >>

waypointVars == << origin, destination, intermediateWaypoints, pendingClicks, nextWaypointId >>

\* handleInfoWindowClose(): onCloseClick of the InfoWindow of a waypoint or photo marker
handleInfoWindowClose ==
    /\ WaypointIds \cup PhotoIds # {}
    /\ photoUploadWaypointContext' = NoContext
    /\ toasts' = {}
    /\ results' = << >>
    /\ photosToRemove' = {}
    /\ UNCHANGED << photos, isUploadingPhotos, upload, nextPhotoId, savedRouteId >>
    /\ UNCHANGED waypointVars

\* an "Add Photo" that keeps the waypoint's coordinate with lat and lng exchanged
handleAddPhotoClickExchanged(waypoint) ==
    /\ waypoint \in AllWaypoints
    /\ ~isUploadingPhotos
    /\ photoUploadWaypointContext' =
           [id |-> waypoint.id, location |-> Coordinates(waypoint.lng, waypoint.lat)]
    /\ toasts' = {}
    /\ results' = << >>
    /\ photosToRemove' = {}
    /\ UNCHANGED << photos, isUploadingPhotos, upload, nextPhotoId, savedRouteId >>
    /\ UNCHANGED waypointVars

\* handleAddPhotoClickFromWaypoint(waypoint): "Add Photo" in the InfoWindow of
\* a waypoint (disabled while isUploadingPhotos); opens the file dialog
handleAddPhotoClickFromWaypoint(waypoint) ==
    /\ waypoint \in AllWaypoints
    /\ ~isUploadingPhotos
    /\ photoUploadWaypointContext' =
           [id |-> waypoint.id, location |-> Coordinates(waypoint.lat, waypoint.lng)]
    /\ toasts' = {}
    /\ results' = << >>
    /\ photosToRemove' = {}
    /\ UNCHANGED << photos, isUploadingPhotos, upload, nextPhotoId, savedRouteId >>
    /\ UNCHANGED waypointVars

\* a resolution that prefers the waypoint context to the embedded tags
ResolveLocationContextFirst(file, context) ==
    LET exif == extractLocationFromPhoto(file)
    IN  IF context # NoContext
        THEN [location |-> context.location, locationSource |-> "waypoint",
              toast |-> "Using Waypoint Location"]
        ELSE IF exif.ok
        THEN [location |-> Coordinates(exif.lat, exif.lng), locationSource |-> "exif",
              toast |-> "EXIF Location Found"]
        ELSE [location |-> Coordinates(0, 0), locationSource |-> "none",
              toast |-> "Location Missing"]

\* step 2 of handlePhotoFilesSelected's fileArray.map: the location of the file,
\* its source, and the toast raised; context is the photoUploadWaypointContext
\* of the handler's closure
ResolveLocation(file, context) ==
    LET exif == extractLocationFromPhoto(file)
    IN  IF exif.ok
        THEN [location |-> Coordinates(exif.lat, exif.lng), locationSource |-> "exif",
              toast |-> "EXIF Location Found"]
        ELSE IF context # NoContext
        THEN [location |-> context.location, locationSource |-> "waypoint",
              toast |-> "Using Waypoint Location"]
        ELSE [location |-> Coordinates(0, 0), locationSource |-> "none",
              toast |-> "Location Missing"]

\* a link made whatever the source of the location
LinkedWaypointIdAnySource(locationSource, context) == context.id

\* the waypointId of the new Photo
LinkedWaypointId(locationSource, context) ==
    IF locationSource = "waypoint" THEN context.id ELSE NoId

\* a processing that adds a photo at (0, 0) for a file without location
ProcessFileAddsUnlocated(file, context, photoId) ==
    IF ~file.readable
    THEN [photo |-> NoPhoto, toast |-> "Upload Error"]
    ELSE LET r == ResolveLocation(file, context)
         IN  [photo |-> [id |-> photoId, location |-> r.location,
                         waypointId |-> LinkedWaypointId(r.locationSource, context),
                         locationSource |-> IF r.locationSource = "none" THEN "waypoint"
                                            ELSE r.locationSource],
              toast |-> r.toast]

\* one file of handlePhotoFilesSelected's fileArray.map: the Photo or NoPhoto
\* (null), and the toast raised for the file
ProcessFile(file, context, photoId) ==
    IF ~file.readable
    THEN [photo |-> NoPhoto, toast |-> "Upload Error"]
    ELSE LET r == ResolveLocation(file, context)
         IN  IF r.locationSource = "none"
             THEN [photo |-> NoPhoto, toast |-> r.toast]
             ELSE [photo |-> [id |-> photoId, location |-> r.location,
                              waypointId |-> LinkedWaypointId(r.locationSource, context),
                              locationSource |-> r.locationSource],
                   toast |-> r.toast]

\* handlePhotoFilesSelected(event) up to its first await: the change event of
\* the hidden file input (both upload buttons are disabled while isUploadingPhotos)
handlePhotoFilesSelected(files) ==
    /\ ~isUploadingPhotos
    /\ nextPhotoId + Len(files) - 1 <= MaxFiles
    /\ IF Len(files) = 0
       THEN /\ photoUploadWaypointContext' = NoContext
            /\ toasts' = {}
            /\ UNCHANGED << isUploadingPhotos, upload >>
       ELSE /\ isUploadingPhotos' = TRUE
            /\ upload' = [active |-> TRUE, files |-> files,
                          context |-> photoUploadWaypointContext]
            /\ toasts' = {"Processing Photos..."}
            /\ UNCHANGED photoUploadWaypointContext
    /\ results' = << >>
    /\ photosToRemove' = {}
    /\ UNCHANGED << photos, nextPhotoId, savedRouteId >>
    /\ UNCHANGED waypointVars

\* the photos a processed selection adds: results.filter(p => p !== null)
successfulPhotos(rs) ==
    LET ps == [i \in 1..Len(rs) |-> rs[i].photo]
    IN  SelectSeq(ps, LAMBDA p : p # NoPhoto)

\* handlePhotoFilesSelected after Promise.all(newPhotosPromises)
photoFilesProcessed ==
    /\ upload.active
    /\ photosToRemove' = {}
    /\ LET rs == [i \in 1..Len(upload.files) |->
                     LET r == ProcessFile(upload.files[i], upload.context,
                                          PhotoIdOf(nextPhotoId + i - 1))
                     IN  [file |-> upload.files[i], context |-> upload.context,
                          photo |-> r.photo, toast |-> r.toast]]
       IN  /\ results' = rs
           /\ photos' = photos \o successfulPhotos(rs)
           /\ toasts' = { rs[i].toast : i \in 1..Len(rs) }
                        \cup (IF successfulPhotos(rs) # << >> THEN {"Photos Added"} ELSE {})
    /\ isUploadingPhotos' = FALSE
    /\ photoUploadWaypointContext' = NoContext
    /\ upload' = NoUpload
    /\ nextPhotoId' = nextPhotoId + Len(upload.files)
    /\ UNCHANGED savedRouteId
    /\ UNCHANGED waypointVars

\* removePhoto(id)
removePhoto(id) ==
    /\ id \in PhotoIds
    /\ photos' = SelectSeq(photos, LAMBDA p : p.id # id)
    /\ toasts' = {"Photo Removed"}
    /\ savedRouteId' = NoId
    /\ results' = << >>
    /\ photosToRemove' = {}
    /\ UNCHANGED << isUploadingPhotos, photoUploadWaypointContext, upload, nextPhotoId >>
    /\ UNCHANGED waypointVars

FileSelections == UNION { [1..n -> Files] : n \in 0..MaxBatch }
\* ------------------------------------------------------------ route API
\* The routes collection behind the Route model and the handlers of
\* /api/routes and /api/routes/[routeId].  The stored document is kept with what
\* Mongoose adds to it: _id, createdAt and updatedAt (timestamps: true) and the
\* _id of every photo subdocument (PhotoSchema, unlike WaypointSchema and
\* CoordinatesSchema, is not declared with _id: false); __v is left out.
\* Strings are "" when undefined or empty, except the route name, which is kept
\* as its characters so that trim acts on it.
NoName == [def |-> FALSE, chars |-> << >>]
Name(chars) == [def |-> TRUE, chars |-> chars]

ApiWaypoint(id, lat, lng) == [id |-> id, lat |-> lat, lng |-> lng]
NoPoint == [kind |-> "undefined", w |-> ApiWaypoint("", 0, 0)]
Point(w) == [kind |-> "object", w |-> w]
\* a JSON value that is no object where a waypoint is expected
PrimitivePoint == [kind |-> "primitive", w |-> ApiWaypoint("", 0, 0)]

NoItems == [def |-> FALSE, items |-> << >>]
Items(items) == [def |-> TRUE, items |-> items]

ApiPhoto(id, lat, lng, waypointId, locationSource) ==
    [id |-> id, location |-> Coordinates(lat, lng), waypointId |-> waypointId,
     locationSource |-> locationSource]

RouteIds == { "r1", "r2" }

\* the JSON number 0 where an id is expected: falsy, and cast to the string "0"
JsonZero == "0 (number)"
\* body.id is truthy
IdGiven(id) == id \notin { "", JsonZero }
\* Mongoose's cast of a value to the schema type String
CastString(id) == IF id = JsonZero THEN "0" ELSE id

Body(id, name, org, dst, wps, phs, creatorId) ==
    [id |-> id, name |-> name, origin |-> org, destination |-> dst,
     intermediateWaypoints |-> wps, photos |-> phs, creatorId |-> creatorId]

StopsSent == << ApiWaypoint("wp-3", 136003, 0 - 440703), ApiWaypoint("wp-4", 136004, 0 - 440704) >>
PhotosSent == << ApiPhoto("photo-1", 136003, 0 - 440703, "wp-3", "waypoint"),
                 ApiPhoto("photo-2", 0 - 135990, 0 - 440710, "", "exif") >>
\* a photo sent without locationSource
PhotosSentBare == << ApiPhoto("photo-3", 136004, 0 - 440704, "wp-4", "") >>

OriginSent == Point(ApiWaypoint("wp-1", 136001, 0 - 440701))
DestinationSent == Point(ApiWaypoint("wp-2", 136002, 0 - 440702))

\* bodies with the fields the planner sends (handleSaveRoute), the arrays also
\* left out, the name also with blanks around it
CompleteBodies ==
    { Body(id, c[1], OriginSent, DestinationSent, c[2], c[3], "temp_user_id") :
        id \in RouteIds,
        c \in { << Name(<< "T" >>), Items(StopsSent), Items(PhotosSent) >>,
                << Name(<< " ", "T", " " >>), Items(StopsSent), Items(PhotosSent) >>,
                << Name(<< "T" >>), NoItems, NoItems >>,
                << Name(<< "T" >>), Items(StopsSent), Items(PhotosSentBare) >> } }

\* a complete body with one field left out, empty, or of the wrong type
DefectiveBodies ==
    LET b == Body("r1", Name(<< "T" >>), OriginSent, DestinationSent,
                  Items(StopsSent), Items(PhotosSent), "temp_user_id")
    IN  { [b EXCEPT !.id = ""], [b EXCEPT !.name = NoName], [b EXCEPT !.name = Name(<< >>)],
          [b EXCEPT !.origin = NoPoint], [b EXCEPT !.origin = PrimitivePoint],
          [b EXCEPT !.destination = NoPoint], [b EXCEPT !.creatorId = ""] }

\* the JSON bodies sent to POST /api/routes
PostBodies == CompleteBodies \cup DefectiveBodies

\* the JSON bodies sent to PUT /api/routes/[routeId]
PutBodies ==
    { Body(id, name, NoPoint, NoPoint, NoItems, NoItems, "") :
        id \in RouteIds \cup {""},
        name \in { NoName, Name(<< >>), Name(<< "N" >>) } }
    \cup { Body("", NoName, NoPoint, NoPoint, NoItems,
                Items(<< ApiPhoto("photo-2", 0 - 135990, 0 - 440710, "", "exif") >>), ""),
           Body(JsonZero, NoName, NoPoint, NoPoint, NoItems, NoItems, ""),
           Body("", Name(<< "N" >>), NoPoint, NoPoint, NoItems, NoItems, "someone_else") }

NoBody == Body("", NoName, NoPoint, NoPoint, NoItems, NoItems, "")

\* String.prototype.trim on the characters of a string (schema option trim)
RECURSIVE TrimStart(_)
TrimStart(chars) ==
    IF chars # << >> /\ Head(chars) = " " THEN TrimStart(Tail(chars)) ELSE chars

RECURSIVE TrimEnd(_)
TrimEnd(chars) ==
    IF chars # << >> /\ chars[Len(chars)] = " "
    THEN TrimEnd(SubSeq(chars, 1, Len(chars) - 1))
    ELSE chars

Trim(chars) == TrimEnd(TrimStart(chars))

\* a validation that asks for id, name, origin and destination only
MissingRequiredFieldsButCreator(body) ==
    \/ body.id = ""
    \/ ~body.name.def \/ body.name.chars = << >>
    \/ body.origin.kind = "undefined"
    \/ body.destination.kind = "undefined"

\* the "Basic validation" of POST: !body.id || !body.name || !body.origin ||
\* !body.destination || !body.creatorId
MissingRequiredFields(body) ==
    \/ body.id = ""
    \/ ~body.name.def \/ body.name.chars = << >>
    \/ body.origin.kind = "undefined"
    \/ body.destination.kind = "undefined"
    \/ body.creatorId = ""

\* Mongoose casts the update to the schema: a primitive for a nested waypoint
\* is a cast error
Castable(body) ==
    body.origin.kind # "primitive" /\ body.destination.kind # "primitive"

\* the photo subdocuments of a cast update: every photo gets an _id of its own
CastPhotos(items, firstObjectId) ==
    [i \in 1..Len(items) |->
        [id |-> items[i].id, location |-> items[i].location,
         waypointId |-> items[i].waypointId,
         locationSource |-> items[i].locationSource,
         _id |-> firstObjectId + i - 1]]

\* the document an upsert inserts: the fields of $set, the schema defaults for
\* the arrays left out, _id, createdAt and updatedAt
InsertedDocument(body, objectId, now) ==
    [_id |-> objectId,
     id |-> body.id,
     name |-> Trim(body.name.chars),
     origin |-> body.origin.w,
     destination |-> body.destination.w,
     intermediateWaypoints |->
         IF body.intermediateWaypoints.def THEN body.intermediateWaypoints.items ELSE << >>,
     photos |-> IF body.photos.def THEN CastPhotos(body.photos.items, objectId + 1) ELSE << >>,
     creatorId |-> body.creatorId,
     createdAt |-> now,
     updatedAt |-> now]

\* { $set: body } applied to a stored document: the fields the body has replace
\* the stored ones, updatedAt is set, the rest stays
UpdatedDocument(doc, body, objectId, now) ==
    [_id |-> doc._id,
     id |-> IF body.id # "" THEN CastString(body.id) ELSE doc.id,
     name |-> IF body.name.def THEN Trim(body.name.chars) ELSE doc.name,
     origin |-> IF body.origin.kind = "object" THEN body.origin.w ELSE doc.origin,
     destination |->
         IF body.destination.kind = "object" THEN body.destination.w ELSE doc.destination,
     intermediateWaypoints |->
         IF body.intermediateWaypoints.def THEN body.intermediateWaypoints.items
         ELSE doc.intermediateWaypoints,
     photos |-> IF body.photos.def THEN CastPhotos(body.photos.items, objectId)
                ELSE doc.photos,
     creatorId |-> IF body.creatorId # "" THEN body.creatorId ELSE doc.creatorId,
     createdAt |-> doc.createdAt,
     updatedAt |-> now]

\* ObjectIds a write of body takes
ObjectIdsTaken(body) == 1 + (IF body.photos.def THEN Len(body.photos.items) ELSE 0)

\* the documents a filter { id: routeId } matches
Matching(routeId) == { d \in store : d.id = routeId }

NoRoute == [id |-> ""]
\* a response with the request it answers: handler, route id, body, and whether
\* dbConnect() resolved
NoResponse == [op |-> "", routeId |-> "", body |-> NoBody, connected |-> FALSE,
               status |-> 0, route |-> NoRoute]
Response(op, routeId, body, status, route) ==
    [op |-> op, routeId |-> routeId, body |-> body, connected |-> TRUE,
     status |-> status, route |-> route]

ApiInit ==
    /\ store = {}
    /\ pendingUpserts = << >>
    /\ response = NoResponse
    /\ viewRoute = NoRoute
    /\ clock = 0
    /\ nextObjectId = 1
    /\ viewError = ""

\* dbConnect() rejects: every handler answers 500 from its catch
ConnectionFailed(op, routeId, body) ==
    /\ response' = [Response(op, routeId, body, 500, NoRoute) EXCEPT !.connected = FALSE]
    /\ clock' = clock + 1
    /\ UNCHANGED << store, pendingUpserts, nextObjectId >>

\* a response that leaves the collection as it is
Answer(op, routeId, body, status, route) ==
    /\ response' = Response(op, routeId, body, status, route)
    /\ clock' = clock + 1
    /\ UNCHANGED << store, pendingUpserts, nextObjectId >>

\* Route.updateOne({ id }, { $set: body }) on a document the filter matches
UpdateMatched(body, op, status) ==
    \E d \in Matching(body.id) :
        LET updated == UpdatedDocument(d, body, nextObjectId, clock + 1)
        IN  /\ store' = (store \ {d}) \cup {updated}
            /\ nextObjectId' = nextObjectId
                   + (IF body.photos.def THEN Len(body.photos.items) ELSE 0)
            /\ response' = Response(op, body.id, body, status, NoRoute)

\* POST /api/routes up to the point where updateOne has looked for the
\* document: an update of the document found is answered at once (200), an
\* insert is still to come
POST(body, connected) ==
    /\ clock < MaxRequests
    /\ IF ~connected
       THEN ConnectionFailed("POST", body.id, body)
       ELSE IF MissingRequiredFields(body)
       THEN Answer("POST", body.id, body, 400, NoRoute)
       ELSE IF ~Castable(body)
       THEN Answer("POST", body.id, body, 500, NoRoute)
       ELSE IF Matching(body.id) # {}
       THEN /\ UpdateMatched(body, "POST", 200)
            /\ clock' = clock + 1
            /\ UNCHANGED pendingUpserts
       ELSE /\ pendingUpserts' = Append(pendingUpserts, body)
            /\ clock' = clock + 1
            /\ UNCHANGED << store, response, nextObjectId >>
    /\ UNCHANGED << viewRoute, viewError >>

\* an insert that does not look at the unique index on id
upsertInsertUnindexed(i, retried) ==
    /\ i \in 1..Len(pendingUpserts)
    /\ LET body == pendingUpserts[i]
       IN  /\ store' = store \cup {InsertedDocument(body, nextObjectId, clock)}
           /\ nextObjectId' = nextObjectId + ObjectIdsTaken(body)
           /\ response' = Response("POST", body.id, body, 201, NoRoute)
    /\ pendingUpserts' = RemoveAt(pendingUpserts, i)
    /\ UNCHANGED << viewRoute, viewError, clock >>

\* the insert of the i-th pending upsert and the answer of its POST: 201 when
\* the document is inserted (upsertedCount > 0); when another upsert has
\* inserted the id meanwhile, the unique index refuses the insert and the
\* upsert is either retried as an update (200) or fails with E11000 (409)
upsertInsert(i, retried) ==
    /\ i \in 1..Len(pendingUpserts)
    /\ LET body == pendingUpserts[i]
       IN  IF Matching(body.id) = {}
           THEN /\ store' = store \cup {InsertedDocument(body, nextObjectId, clock)}
                /\ nextObjectId' = nextObjectId + ObjectIdsTaken(body)
                /\ response' = Response("POST", body.id, body, 201, NoRoute)
           ELSE IF retried
           THEN UpdateMatched(body, "POST", 200)
           ELSE /\ response' = Response("POST", body.id, body, 409, NoRoute)
                /\ UNCHANGED << store, nextObjectId >>
    /\ pendingUpserts' = RemoveAt(pendingUpserts, i)
    /\ UNCHANGED << viewRoute, viewError, clock >>

\* const { _id, __v, ...routeToSend } = route
RouteToSend(doc) ==
    [id |-> doc.id, name |-> doc.name, origin |-> doc.origin,
     destination |-> doc.destination,
     intermediateWaypoints |-> doc.intermediateWaypoints, photos |-> doc.photos,
     creatorId |-> doc.creatorId, createdAt |-> doc.createdAt,
     updatedAt |-> doc.updatedAt]

\* GET /api/routes/[routeId], the share view's state apart
GetHandled(routeId, connected) ==
    /\ clock < MaxRequests
    /\ IF ~connected
       THEN ConnectionFailed("GET", routeId, NoBody)
       ELSE IF Matching(routeId) = {}
       THEN Answer("GET", routeId, NoBody, 404, NoRoute)
       ELSE \E d \in Matching(routeId) :
                Answer("GET", routeId, NoBody, 200, RouteToSend(d))

\* GET /api/routes/[routeId]
GET(routeId, connected) ==
    /\ GetHandled(routeId, connected)
    /\ UNCHANGED << viewRoute, viewError >>

\* the update validators of PUT (runValidators: true): name is required, and
\* trimmed before it is validated
UpdateValid(updateData) ==
    updateData.name.def => Trim(updateData.name.chars) # << >>

\* the unique index on id refuses an update that gives the document the id of
\* another one (E11000)
DuplicateKey(routeId, updateData) ==
    /\ updateData.id # ""
    /\ CastString(updateData.id) # routeId
    /\ Matching(CastString(updateData.id)) # {}

\* a PUT whose findOneAndUpdate upserts
PUTUpserting(routeId, body, connected) ==
    /\ clock < MaxRequests
    /\ connected
    /\ ~IdGiven(body.id) \/ body.id = routeId
    /\ UpdateValid(body)
    /\ LET updateData == [body EXCEPT !.creatorId = "", !.id = routeId]
       IN  IF Matching(routeId) = {}
           THEN /\ store' = store \cup {InsertedDocument(updateData, nextObjectId, clock + 1)}
                /\ nextObjectId' = nextObjectId + ObjectIdsTaken(updateData)
                /\ response' = Response("PUT", routeId, body, 200, NoRoute)
           ELSE UpdateMatched(updateData, "PUT", 200)
    /\ clock' = clock + 1
    /\ UNCHANGED << pendingUpserts, viewRoute, viewError >>

\* PUT /api/routes/[routeId]
PUT(routeId, body, connected) ==
    /\ clock < MaxRequests
    /\ IF ~connected
       THEN ConnectionFailed("PUT", routeId, body)
       ELSE IF IdGiven(body.id) /\ body.id # routeId
       THEN Answer("PUT", routeId, body, 400, NoRoute)
       ELSE LET updateData == [body EXCEPT !.creatorId = ""]
            IN  IF ~Castable(updateData) \/ ~UpdateValid(updateData)
                THEN Answer("PUT", routeId, body, 500, NoRoute)
                ELSE IF Matching(routeId) = {}
                THEN Answer("PUT", routeId, body, 404, NoRoute)
                ELSE IF DuplicateKey(routeId, updateData)
                THEN Answer("PUT", routeId, body, 500, NoRoute)
                ELSE /\ \E d \in Matching(routeId) :
                            LET updated == UpdatedDocument(d, updateData, nextObjectId, clock + 1)
                            IN  /\ store' = (store \ {d}) \cup {updated}
                                /\ response' = Response("PUT", routeId, body, 200, updated)
                     /\ nextObjectId' = nextObjectId
                            + (IF body.photos.def THEN Len(body.photos.items) ELSE 0)
                     /\ clock' = clock + 1
                     /\ UNCHANGED pendingUpserts
    /\ UNCHANGED << viewRoute, viewError >>

\* DELETE /api/routes/[routeId]
DELETE(routeId, connected) ==
    /\ clock < MaxRequests
    /\ IF ~connected
       THEN ConnectionFailed("DELETE", routeId, NoBody)
       ELSE IF Matching(routeId) = {}
       THEN Answer("DELETE", routeId, NoBody, 404, NoRoute)
       ELSE /\ \E d \in Matching(routeId) : store' = store \ {d}
            /\ response' = Response("DELETE", routeId, NoBody, 200, NoRoute)
            /\ clock' = clock + 1
            /\ UNCHANGED << pendingUpserts, nextObjectId >>
    /\ UNCHANGED << viewRoute, viewError >>

\* ------------------------------------------------------- photo upload API
\* the body of POST /api/photos/upload: routeId, photoDataUrl, location,
\* waypointId, locationSource ("" when left out); the description is left out
NoLocation == [kind |-> "undefined", c |-> Coordinates(0, 0)]
Location(c) == [kind |-> "object", c |-> c]
\* a JSON string where the coordinates are expected
PrimitiveLocation == [kind |-> "primitive", c |-> Coordinates(0, 0)]

UploadBody(routeId, photoDataUrl, location, waypointId, locationSource) ==
    [routeId |-> routeId, photoDataUrl |-> photoDataUrl, location |-> location,
     waypointId |-> waypointId, locationSource |-> locationSource]

\* what uploadPhotoAction sends for an 'exif' and for a 'waypoint' photo
UploadsSent(routeId) ==
    { UploadBody(routeId, "data:image/jpeg", Location(Coordinates(0 - 135990, 0 - 440710)),
                 "", "exif"),
      UploadBody(routeId, "data:image/jpeg", Location(Coordinates(136003, 0 - 440703)),
                 "wp-3", "waypoint") }

\* requests with one of the four required fields left out, and one whose
\* location is no object
DefectiveUploads ==
    { UploadBody("", "data:image/jpeg", Location(Coordinates(136003, 0 - 440703)), "", "exif"),
      UploadBody("r1", "", Location(Coordinates(136003, 0 - 440703)), "", "exif"),
      UploadBody("r2", "data:image/jpeg", NoLocation, "", "exif"),
      UploadBody("r1", "data:image/jpeg", Location(Coordinates(136003, 0 - 440703)), "wp-3", ""),
      UploadBody("r1", "data:image/jpeg", PrimitiveLocation, "", "exif") }

UploadBodies == UNION { UploadsSent(r) : r \in RouteIds } \cup DefectiveUploads

\* Math.floor(Math.random() * 1000) of the mock storage, two of its values
UrlSeeds == { "seed/7", "seed/8" }

\* photoId: `photo-${Date.now()}-${Math.random()...}`, an id of its own per request
UploadPhotoId(now) == "photo-up-" \o ToString(now)

\* the "Basic validation" of the upload
MissingUploadFields(body) ==
    \/ body.routeId = ""
    \/ body.photoDataUrl = ""
    \/ body.location.kind = "undefined"
    \/ body.locationSource = ""

\* newPhoto as the store keeps it: cast to PhotoSchema, with an _id
NewPhoto(body, photoId, photoUrl, objectId) ==
    [id |-> photoId, url |-> photoUrl, location |-> body.location.c,
     waypointId |-> body.waypointId, locationSource |-> body.locationSource,
     _id |-> objectId]

\* an update that sets the photos array to the new photo
PushedPhotosSet(photosStored, newPhoto) == << newPhoto >>

\* { $push: { photos: newPhoto } }
PushedPhotos(photosStored, newPhoto) == Append(photosStored, newPhoto)

\* POST /api/photos/upload
POSTPhotoUpload(body, connected) ==
    /\ clock < MaxRequests
    /\ IF ~connected
       THEN ConnectionFailed("UPLOAD", body.routeId, body)
       ELSE IF MissingUploadFields(body)
       THEN Answer("UPLOAD", body.routeId, body, 400, NoRoute)
       ELSE IF body.location.kind = "primitive"
       THEN Answer("UPLOAD", body.routeId, body, 500, NoRoute)
       ELSE IF Matching(body.routeId) = {}
       THEN Answer("UPLOAD", body.routeId, body, 404, NoRoute)
       ELSE /\ \E d \in Matching(body.routeId), seed \in UrlSeeds :
                   LET newPhoto == NewPhoto(body, UploadPhotoId(clock + 1), seed, nextObjectId)
                   IN  /\ store' = (store \ {d}) \cup
                                       {[d EXCEPT !.photos = PushedPhotos(@, newPhoto),
                                                  !.updatedAt = clock + 1]}
                       /\ response' = Response("UPLOAD", body.routeId, body, 201,
                                           [photoId |-> newPhoto.id, photoUrl |-> newPhoto.url])
            /\ nextObjectId' = nextObjectId + 1
            /\ clock' = clock + 1
            /\ UNCHANGED pendingUpserts
    /\ UNCHANGED << viewRoute, viewError >>

\* --------------------------------------------------------------- share view
\* a share view that hands the photos over in reverse
LoadedRouteReversed(routeData) ==
    [routeData EXCEPT !.photos =
        [i \in 1..Len(routeData.photos) |->
            routeData.photos[Len(routeData.photos) + 1 - i]]]

\* what fetchRouteData makes of the route a 200 carries: the photos get
\* locationSource 'waypoint' where they have none
LoadedRoute(routeData) ==
    [routeData EXCEPT !.photos =
        [i \in 1..Len(routeData.photos) |->
            [routeData.photos[i] EXCEPT !.locationSource =
                IF @ = "" THEN "waypoint" ELSE @]]]

\* fetchRouteData(routeId) of the share view: null on 404, on any other
\* failure and on a route without id, origin or destination
fetchRouteData(routeId, connected) ==
    /\ GetHandled(routeId, connected)
    /\ viewRoute' = IF response'.status = 200 /\ response'.route.id # ""
                    THEN LoadedRoute(response'.route)
                    ELSE NoRoute

\* the load effect of ViewRoutePage: the route fetchRouteData resolved with is
\* shown; null ends in "Route not found"; "Failed to load route data" is set
\* when fetchRouteData rejects, which its own catch keeps it from
ViewRoutePageLoad(routeId, connected) ==
    /\ fetchRouteData(routeId, connected)
    /\ viewError' = IF viewRoute' # NoRoute THEN "" ELSE "Route not found"

vars == << plannerVars, apiVars, extVars >>

MapClick ==
    /\ handleMapClick(ClickPoint(nextWaypointId + Len(pendingClicks)), MaxWaypoints, MaxPending)
    /\ UNCHANGED << apiVars, extVars >>
GeocodeCallback ==
    /\ \E i \in 1..Len(pendingClicks) : geocodeCallback(i)
    /\ UNCHANGED << apiVars, extVars >>
SetOriginByPlace ==
    /\ \E g \in BOOLEAN :
           handleSetOriginStable(ClickPoint(nextWaypointId + Len(pendingClicks)), g, MaxWaypoints)
    /\ UNCHANGED << apiVars, extVars >>
SetDestinationByPlace ==
    /\ \E g \in BOOLEAN :
           handleSetDestinationStable(ClickPoint(nextWaypointId + Len(pendingClicks)), g, MaxWaypoints)
    /\ UNCHANGED << apiVars, extVars >>
AddIntermediateByPlace ==
    /\ \E g \in BOOLEAN :
           addIntermediateWaypointStable(ClickPoint(nextWaypointId + Len(pendingClicks)), g, MaxWaypoints)
    /\ UNCHANGED << apiVars, extVars >>
RemoveWaypoint ==
    /\ \E id \in WaypointIds : removeWaypoint(id)
    /\ UNCHANGED << apiVars, extVars >>
InfoWindowClose ==
    /\ handleInfoWindowClose
    /\ UNCHANGED << apiVars, extVars >>
AddPhotoClick ==
    /\ \E w \in AllWaypoints : handleAddPhotoClickFromWaypoint(w)
    /\ UNCHANGED << apiVars, extVars >>
FilesSelected ==
    /\ \E files \in FileSelections : handlePhotoFilesSelected(files)
    /\ UNCHANGED << apiVars, extVars >>
FilesProcessed ==
    /\ photoFilesProcessed
    /\ UNCHANGED << apiVars, extVars >>
RemovePhoto ==
    /\ \E id \in PhotoIds : removePhoto(id)
    /\ UNCHANGED << apiVars, extVars >>

Init == PlannerInit /\ ApiInit /\ ExtInit

Next ==
    \/ MapClick
    \/ GeocodeCallback
    \/ SetOriginByPlace
    \/ SetDestinationByPlace
    \/ AddIntermediateByPlace
    \/ RemoveWaypoint
    \/ InfoWindowClose
    \/ AddPhotoClick
    \/ FilesSelected
    \/ FilesProcessed
    \/ RemovePhoto

Spec == Init /\ [][Next]_vars

\* -------------------------------------------------------- waypoint limit
\* the waypoint edits alone, with room for origin, destination and more than
\* MAX_INTERMEDIATE_WAYPOINTS intermediate waypoints
CapMapClick ==
    /\ handleMapClick(ClickPoint(nextWaypointId + Len(pendingClicks)), MaxCapWaypoints, MaxCapPending)
    /\ UNCHANGED << apiVars, extVars >>
CapSetOriginByPlace ==
    /\ \E g \in BOOLEAN :
           handleSetOriginStable(ClickPoint(nextWaypointId + Len(pendingClicks)), g, MaxCapWaypoints)
    /\ UNCHANGED << apiVars, extVars >>
CapSetDestinationByPlace ==
    /\ \E g \in BOOLEAN :
           handleSetDestinationStable(ClickPoint(nextWaypointId + Len(pendingClicks)), g, MaxCapWaypoints)
    /\ UNCHANGED << apiVars, extVars >>
CapAddIntermediateByPlace ==
    /\ \E g \in BOOLEAN :
           addIntermediateWaypointStable(ClickPoint(nextWaypointId + Len(pendingClicks)), g, MaxCapWaypoints)
    /\ UNCHANGED << apiVars, extVars >>

NextCap ==
    \/ CapMapClick
    \/ GeocodeCallback
    \/ CapSetOriginByPlace
    \/ CapSetDestinationByPlace
    \/ CapAddIntermediateByPlace
    \/ RemoveWaypoint

\* a route one stop short of the limit: origin and destination set and
\* MAX_INTERMEDIATE_WAYPOINTS - 1 stops added by place selection, nothing else
\* touched since mount
InitCap ==
    /\ origin = Waypoint(WaypointIdOf(1), ClickPoint(1).lat, ClickPoint(1).lng)
    /\ destination = Waypoint(WaypointIdOf(2), ClickPoint(2).lat, ClickPoint(2).lng)
    /\ intermediateWaypoints =
           [i \in 1..(MAX_INTERMEDIATE_WAYPOINTS - 1) |->
               Waypoint(WaypointIdOf(i + 2), ClickPoint(i + 2).lat, ClickPoint(i + 2).lng)]
    /\ photos = << >>
    /\ isUploadingPhotos = FALSE
    /\ photoUploadWaypointContext = NoContext
    /\ savedRouteId = NoId
    /\ pendingClicks = << >>
    /\ upload = NoUpload
    /\ results = << >>
    /\ toasts = {}
    /\ photosToRemove = {}
    /\ nextWaypointId = MAX_INTERMEDIATE_WAYPOINTS + 2
    /\ nextPhotoId = 1
    /\ ApiInit
    /\ ExtInit

SpecCap == InitCap /\ [][NextCap]_vars

\* C6: after any sequence of map clicks, place selections and removals the
\* intermediate waypoint collection holds at most MAX_INTERMEDIATE_WAYPOINTS
\* entries.
C6_IntermediateLimit == Len(intermediateWaypoints) <= MAX_INTERMEDIATE_WAYPOINTS

\* ------------------------------------------------------------ route API
Post ==
    /\ \E body \in PostBodies, connected \in BOOLEAN : POST(body, connected)
    /\ UNCHANGED << plannerVars, extVars >>
UpsertInsert ==
    /\ \E i \in 1..Len(pendingUpserts), retried \in BOOLEAN : upsertInsert(i, retried)
    /\ UNCHANGED << plannerVars, extVars >>
Get ==
    /\ \E routeId \in RouteIds, connected \in BOOLEAN : GET(routeId, connected)
    /\ UNCHANGED << plannerVars, extVars >>
Put ==
    /\ \E routeId \in RouteIds, body \in PutBodies, connected \in BOOLEAN :
           PUT(routeId, body, connected)
    /\ UNCHANGED << plannerVars, extVars >>
Delete ==
    /\ \E routeId \in RouteIds, connected \in BOOLEAN : DELETE(routeId, connected)
    /\ UNCHANGED << plannerVars, extVars >>
ShareViewLoad ==
    /\ \E routeId \in RouteIds, connected \in BOOLEAN : ViewRoutePageLoad(routeId, connected)
    /\ UNCHANGED << plannerVars, extVars >>

NextApi ==
    \/ Post
    \/ UpsertInsert
    \/ Get
    \/ Put
    \/ Delete
    \/ ShareViewLoad

SpecApi == Init /\ [][NextApi]_vars

\* C25: every photo with locationSource 'waypoint' and a waypointId is linked
\* to a waypoint that is the origin, the destination or an intermediate
\* waypoint.
C25_LinkedWaypointOnRoute ==
    \A i \in 1..Len(photos) :
        (photos[i].locationSource = "waypoint" /\ photos[i].waypointId # NoId) =>
            photos[i].waypointId \in WaypointIds

\* ------------------------------------------------------- upload context
\* The two upload buttons click the same hidden file input.  The dialog it
\* opens is closed by a selection (change event) or dismissed without event.
contextRest == << apiVars, sessionVars, alertDialog, conversion, directionsVars,
                 serverVars, routeIdParam, loading, viewFetches >>

ContextSetOrigin ==
    /\ ~fileDialog.open
    /\ \E g \in BOOLEAN :
           handleSetOriginStable(ClickPoint(nextWaypointId), g, MaxContextWaypoints)
    /\ UNCHANGED << fileDialog, contextRest >>
ContextInfoWindowClose ==
    /\ ~fileDialog.open
    /\ handleInfoWindowClose
    /\ UNCHANGED << fileDialog, contextRest >>
\* "Add Photo" of a waypoint: fileInputRef.current.click()
ContextAddPhotoClick ==
    /\ ~fileDialog.open
    /\ \E w \in AllWaypoints : handleAddPhotoClickFromWaypoint(w)
    /\ fileDialog' = [open |-> TRUE, by |-> "waypoint"]
    /\ UNCHANGED contextRest
\* onClick of the photoUploadTrigger button (disabled while isUploadingPhotos)
photoUploadTriggerClick ==
    /\ ~fileDialog.open
    /\ ~isUploadingPhotos
    /\ fileDialog' = [open |-> TRUE, by |-> "global"]
    /\ UNCHANGED << plannerVars, contextRest >>
\* the file dialog is dismissed: no change event
fileDialogDismissed ==
    /\ fileDialog.open
    /\ fileDialog' = [fileDialog EXCEPT !.open = FALSE]
    /\ UNCHANGED << plannerVars, contextRest >>
ContextFilesSelected ==
    /\ fileDialog.open
    /\ \E files \in FileSelections : Len(files) > 0 /\ handlePhotoFilesSelected(files)
    /\ fileDialog' = [fileDialog EXCEPT !.open = FALSE]
    /\ UNCHANGED contextRest
ContextFilesProcessed ==
    /\ photoFilesProcessed
    /\ UNCHANGED << fileDialog, contextRest >>

NextContext ==
    \/ ContextSetOrigin
    \/ ContextInfoWindowClose
    \/ ContextAddPhotoClick
    \/ photoUploadTriggerClick
    \/ fileDialogDismissed
    \/ ContextFilesSelected
    \/ ContextFilesProcessed

SpecContext == Init /\ [][NextContext]_vars

\* C28: a selection made through the global upload button is processed
\* without waypoint context, and every photo it adds is of a file with valid
\* GPS tags.
C28_ContextOnlyForItsUpload ==
    [][/\ (fileDialog.by = "global" /\ ~upload.active /\ upload'.active) =>
              upload'.context = NoContext
       /\ (fileDialog.by = "global" /\ upload.active /\ ~upload'.active) =>
              \A i \in 1..Len(results') :
                  results'[i].photo # NoPhoto =>
                      extractLocationFromPhoto(results'[i].file).ok]_vars

\* ------------------------------------------------------------ directions
\* the request directionsService.route is called with for a route
DirectionsRequest(o, d, stops) ==
    [origin |-> Coordinates(o.lat, o.lng), destination |-> Coordinates(d.lat, d.lng),
     waypoints |-> [i \in 1..Len(stops) |-> Coordinates(stops[i].lat, stops[i].lng)]]

\* the DirectionsResult of a request
DirectionsResult(request) == [ok |-> TRUE, request |-> request]

\* the effect "update directions" as it runs after a handler: it runs when
\* origin, destination or intermediateWaypoints was set; it clears the path
\* when origin or destination is missing and asks for directions otherwise
updateDirections ==
    IF origin' = origin /\ destination' = destination
       /\ intermediateWaypoints' = intermediateWaypoints
    THEN UNCHANGED directionsVars
    ELSE IF origin' = NoWaypoint \/ destination' = NoWaypoint
    THEN directions' = NoDirections /\ UNCHANGED pendingRoutes
    ELSE /\ pendingRoutes' = Append(pendingRoutes,
                 DirectionsRequest(origin', destination', intermediateWaypoints'))
         /\ UNCHANGED directions

\* a callback that drops the response of a request that is not the last issued
directionsCallbackLatestOnly(i, ok) ==
    /\ i \in 1..Len(pendingRoutes)
    /\ IF i < Len(pendingRoutes)
       THEN UNCHANGED << directions, toasts >>
       ELSE IF ok
       THEN directions' = DirectionsResult(pendingRoutes[i]) /\ toasts' = {}
       ELSE directions' = NoDirections /\ toasts' = {"Routing Error"}
    /\ pendingRoutes' = RemoveAt(pendingRoutes, i)
    /\ results' = << >>
    /\ photosToRemove' = {}
    /\ UNCHANGED << savedRouteId, photoVars, waypointVars >>

\* the callback of the i-th request in flight, with status OK or another
directionsCallback(i, ok) ==
    /\ i \in 1..Len(pendingRoutes)
    /\ IF ok
       THEN directions' = DirectionsResult(pendingRoutes[i]) /\ toasts' = {}
       ELSE directions' = NoDirections /\ toasts' = {"Routing Error"}
    /\ pendingRoutes' = RemoveAt(pendingRoutes, i)
    /\ results' = << >>
    /\ photosToRemove' = {}
    /\ UNCHANGED << savedRouteId, photoVars, waypointVars >>

directionsRest == << apiVars, sessionVars, alertDialog, conversion, serverVars, pageVars >>

\* an edit of the route with the run of the effect that follows it; requests
\* in flight are bounded by MaxRoutesPending
RouteEdit ==
    /\ Len(pendingRoutes) < MaxRoutesPending
    /\ \/ \E g \in BOOLEAN :
              handleSetOriginStable(ClickPoint(nextWaypointId), g, MaxRouteWaypoints)
       \/ \E g \in BOOLEAN :
              handleSetDestinationStable(ClickPoint(nextWaypointId), g, MaxRouteWaypoints)
       \/ \E g \in BOOLEAN :
              addIntermediateWaypointStable(ClickPoint(nextWaypointId), g, MaxRouteWaypoints)
       \/ \E id \in WaypointIds : removeWaypoint(id)
    /\ updateDirections
    /\ UNCHANGED directionsRest
DirectionsCallback ==
    /\ \E i \in 1..Len(pendingRoutes), ok \in BOOLEAN : directionsCallback(i, ok)
    /\ UNCHANGED directionsRest

NextDirections ==
    \/ RouteEdit
    \/ DirectionsCallback

SpecDirections == Init /\ [][NextDirections]_vars

\* origin, destination or intermediateWaypoints is set in the step
RouteChanged ==
    origin' # origin \/ destination' # destination
    \/ intermediateWaypoints' # intermediateWaypoints

\* C18: after a step that leaves origin or destination absent no directions
\* request has been issued and the rendered path is null, also when the step
\* is the arrival of a response to a request issued earlier.
C18_NoPathWithoutEndpoints ==
    [][(origin' = NoWaypoint \/ destination' = NoWaypoint) =>
          (directions' = NoDirections /\ Len(pendingRoutes') <= Len(pendingRoutes))]_vars

\* C19: every change of the route that leaves origin and destination set
\* issues one request, for the route as changed, and no step cancels or
\* reorders a request in flight; the response of any request in flight,
\* whichever was issued last, sets the path: to its result when its status is
\* OK, to null otherwise. So the path left when all have resolved is the
\* outcome of the response that resolved last.
C19_LastResolvedWins ==
    [][IF RouteChanged
       THEN pendingRoutes' =
                IF origin' # NoWaypoint /\ destination' # NoWaypoint
                THEN Append(pendingRoutes,
                         DirectionsRequest(origin', destination', intermediateWaypoints'))
                ELSE pendingRoutes
       ELSE pendingRoutes' # pendingRoutes =>
                \E i \in 1..Len(pendingRoutes) :
                    /\ pendingRoutes' = RemoveAt(pendingRoutes, i)
                    /\ directions' = IF "Routing Error" \in toasts' THEN NoDirections
                                     ELSE DirectionsResult(pendingRoutes[i])]_vars

\* two requests were in flight and both have resolved; the path rendered is
\* the result of the one issued first, not of the route as it is
C19_Witness ==
    /\ pendingRoutes = << >>
    /\ origin # NoWaypoint /\ destination # NoWaypoint
    /\ Len(intermediateWaypoints) = 1
    /\ directions = DirectionsResult(DirectionsRequest(origin, destination, << >>))

\* ------------------------------------------------------------ map clicks
\* map clicks alone on an empty route, several reverse geocodings in flight
ClicksMapClick ==
    /\ handleMapClick(ClickPoint(nextWaypointId + Len(pendingClicks)),
                      MaxClickWaypoints, MaxClickPending)
    /\ UNCHANGED << apiVars, extVars >>

NextClicks ==
    \/ ClicksMapClick
    \/ GeocodeCallback

SpecClicks == Init /\ [][NextClicks]_vars

\* the waypoint w lies where the n-th click of the behaviour was made
AtClick(w, n) == w # NoWaypoint /\ w.lat = ClickPoint(n).lat /\ w.lng = ClickPoint(n).lng

\* C17: the callback of a map click sets origin if origin is empty, else
\* destination if destination is empty, else appends an intermediate waypoint;
\* and once two or more clicks on an empty route have all had their callback,
\* origin lies at the first click and destination at the second.
C17_ClicksFillFirstEmptySlot ==
    [][Len(pendingClicks') < Len(pendingClicks) =>
          /\ IF origin = NoWaypoint
             THEN origin' # NoWaypoint /\ destination' = destination
                  /\ intermediateWaypoints' = intermediateWaypoints
             ELSE IF destination = NoWaypoint
             THEN destination' # NoWaypoint /\ origin' = origin
                  /\ intermediateWaypoints' = intermediateWaypoints
             ELSE Len(intermediateWaypoints') = Len(intermediateWaypoints) + 1
                  /\ origin' = origin /\ destination' = destination
          /\ (pendingClicks' = << >> /\ nextWaypointId' >= 3)
                 => (AtClick(origin', 1) /\ AtClick(destination', 2))]_vars

\* ------------------------------------------------------- DMS conversion
\* the components of the DMS tags converted: integers up to MaxDmsComponent,
\* a component that is null, and one that is NaN
DmsComponents == { Num(n) : n \in 0..MaxDmsComponent } \cup { Num(59), Null, NaN }

\* the tags converted: undefined, and arrays of 0 to 4 components
DmsInputs ==
    { UndefinedDms, Dms(<< >>), Dms(<< Num(37) >>), Dms(<< Num(37), Num(46) >>),
      Dms(<< Num(37), Num(46), Num(30), Num(0) >>) }
    \cup { Dms(<< d, m, sec >>) : d, m, sec \in DmsComponents }

\* the references: undefined or empty, the four hemispheres, and another letter
DmsRefs == { "", "N", "S", "E", "W", "s" }

\* a call of convertDMSToDD
Convert ==
    /\ \E dms \in DmsInputs, ref \in DmsRefs :
           conversion' = [dms |-> dms, ref |-> ref, dd |-> convertDMSToDD(dms, ref),
                          done |-> TRUE]
    /\ UNCHANGED << plannerVars, apiVars, sessionVars, alertDialog, directionsVars, serverVars, pageVars >>

NextDms == Convert

SpecDms == Init /\ [][NextDms]_vars

\* C16: convertDMSToDD returns null when the triple is missing, has not
\* exactly 3 components or the reference is missing; for a triple of integers
\* it returns degrees + minutes/60 + seconds/3600 (in arc seconds: 3600 *
\* degrees + 60 * minutes + seconds), negated exactly when the reference is
\* 'S' or 'W'.
C16_ConvertDMSToDD ==
    conversion.done =>
        IF ~conversion.dms.def \/ Len(conversion.dms.arr) # 3 \/ conversion.ref = ""
        THEN conversion.dd = Null
        ELSE LET a == conversion.dms.arr
             IN  (\A i \in 1..3 : a[i].t = "num") =>
                     LET seconds == 3600 * a[1].v + 60 * a[2].v + a[3].v
                     IN  /\ conversion.dd.t = "num"
                         /\ conversion.dd.v =
                                IF conversion.ref \in {"S", "W"} THEN 0 - seconds ELSE seconds

\* a western triple was converted to a negative value, 1 degree 59 minutes 2 seconds
C16_Witness ==
    /\ conversion.done
    /\ conversion.ref = "W"
    /\ conversion.dms = Dms(<< Num(1), Num(59), Num(2) >>)
    /\ conversion.dd = Num(0 - 7142)

\* ------------------------------------------------------------ removals
\* The "Remove" button of a marker's InfoWindow opens an AlertDialog whose
\* action calls removeWaypoint / removePhoto; the trash buttons of the side
\* panel call them at once. The dialog is modal.
dialogRest == << apiVars, sessionVars, conversion, directionsVars, serverVars, pageVars >>

\* AlertDialogTrigger in the InfoWindow of the marker id
OpenRemoveDialog ==
    /\ alertDialog = NoId
    /\ \E id \in WaypointIds \cup PhotoIds : alertDialog' = id
    /\ UNCHANGED << plannerVars, dialogRest >>
\* AlertDialogCancel
CancelRemoveDialog ==
    /\ alertDialog # NoId
    /\ alertDialog' = NoId
    /\ UNCHANGED << plannerVars, dialogRest >>
\* AlertDialogAction
ConfirmRemove ==
    /\ alertDialog # NoId
    /\ IF alertDialog \in WaypointIds THEN removeWaypoint(alertDialog)
       ELSE removePhoto(alertDialog)
    /\ alertDialog' = NoId
    /\ UNCHANGED dialogRest
\* the Remove Origin, Remove Destination and Remove Stop buttons of the side panel
ListRemoveWaypoint ==
    /\ alertDialog = NoId
    /\ \E id \in WaypointIds : removeWaypoint(id)
    /\ UNCHANGED << alertDialog, dialogRest >>
\* the trash button on a photo of the "Added Photos" grid
ListRemovePhoto ==
    /\ alertDialog = NoId
    /\ \E id \in PhotoIds : removePhoto(id)
    /\ UNCHANGED << alertDialog, dialogRest >>

NextConfirm ==
    \/ OpenRemoveDialog
    \/ CancelRemoveDialog
    \/ ConfirmRemove
    \/ ListRemoveWaypoint
    \/ ListRemovePhoto

\* a route with origin, destination and two stops, an 'exif' photo and a
\* photo added from each stop
InitConfirm ==
    /\ origin = Waypoint(WaypointIdOf(1), ClickPoint(1).lat, ClickPoint(1).lng)
    /\ destination = Waypoint(WaypointIdOf(2), ClickPoint(2).lat, ClickPoint(2).lng)
    /\ intermediateWaypoints =
           << Waypoint(WaypointIdOf(3), ClickPoint(3).lat, ClickPoint(3).lng),
              Waypoint(WaypointIdOf(4), ClickPoint(4).lat, ClickPoint(4).lng) >>
    /\ photos =
           << [id |-> PhotoIdOf(1), location |-> Coordinates(135990, 0 - 440710),
               waypointId |-> NoId, locationSource |-> "exif"],
              [id |-> PhotoIdOf(2), location |-> ClickPoint(3),
               waypointId |-> WaypointIdOf(3), locationSource |-> "waypoint"],
              [id |-> PhotoIdOf(3), location |-> ClickPoint(4),
               waypointId |-> WaypointIdOf(4), locationSource |-> "waypoint"] >>
    /\ isUploadingPhotos = FALSE
    /\ photoUploadWaypointContext = NoContext
    /\ savedRouteId = NoId
    /\ pendingClicks = << >>
    /\ upload = NoUpload
    /\ results = << >>
    /\ toasts = {}
    /\ photosToRemove = {}
    /\ nextWaypointId = 5
    /\ nextPhotoId = 4
    /\ ApiInit
    /\ ExtInit

SpecConfirm == InitConfirm /\ [][NextConfirm]_vars

\* C15: a step that removes a waypoint or a photo is the action of the
\* confirm dialog opened for it (a photo also goes with the confirmed removal
\* of the waypoint it is linked to).
C15_RemovalConfirmed ==
    [][(\A id \in WaypointIds \ WaypointIds' : alertDialog = id)
       /\ (\A id \in PhotoIds \ PhotoIds' :
               alertDialog = id
               \/ (alertDialog \in WaypointIds \ WaypointIds'
                      /\ id \in LinkedPhotoIds(photos, alertDialog)))]_vars

\* ------------------------------------------------- API-backed planner
\* The planner that saves through POST /api/routes differs from the one that
\* saves locally in that every edit of the route also clears savedRouteId.
\* savedRouteId holds << "route", n >> for the n-th id generated.
RouteIdString(n) == "route-" \o ToString(n)

\* the names typed into the route name input
RouteNames == { DefaultRouteName, << " " >>, << >> }

handleSetOriginKeepingId(pt) == handleSetOrigin(pt) /\ UNCHANGED savedRouteId

\* handleSetOrigin / handleSetOriginStable of the API-backed planner
handleSetOriginApi(pt) == handleSetOrigin(pt) /\ savedRouteId' = NoId

\* handleSetDestination / handleSetDestinationStable of the API-backed planner
handleSetDestinationApi(pt) == handleSetDestination(pt) /\ savedRouteId' = NoId

\* addIntermediateWaypoint of the API-backed planner
addIntermediateWaypointApi(closureLength, pt, more) ==
    /\ addIntermediateWaypoint(closureLength, pt, more)
    /\ savedRouteId' = IF LimitReached(closureLength) THEN savedRouteId ELSE NoId

\* the geocoder's callback of the i-th click in flight, API-backed planner
geocodeCallbackApi(i) ==
    /\ i \in 1..Len(pendingClicks)
    /\ LET c == pendingClicks[i]
       IN  IF ~c.hasOrigin
           THEN handleSetOriginApi(c.point) /\ toasts' = {"Origin Set"}
           ELSE IF ~c.hasDestination
           THEN handleSetDestinationApi(c.point) /\ toasts' = {"Destination Set"}
           ELSE IF c.length < MAX_INTERMEDIATE_WAYPOINTS
           THEN addIntermediateWaypointApi(c.length, c.point, {"Waypoint Added"})
           ELSE /\ toasts' = {"Waypoint Limit Reached"}
                /\ UNCHANGED << origin, destination, intermediateWaypoints,
                                nextWaypointId, savedRouteId >>
    /\ pendingClicks' = RemoveAt(pendingClicks, i)
    /\ results' = << >>
    /\ photosToRemove' = {}
    /\ UNCHANGED photoVars

\* place_changed of the origin (toOrigin) or destination autocomplete,
\* API-backed planner
placeChangedApi(pt, hasGeometry, toOrigin, budget) ==
    /\ nextWaypointId + Len(pendingClicks) <= budget
    /\ IF ~hasGeometry
       THEN /\ toasts' = {"Location not found"}
            /\ UNCHANGED << origin, destination, intermediateWaypoints,
                            nextWaypointId, savedRouteId >>
       ELSE /\ toasts' = {}
            /\ IF toOrigin THEN handleSetOriginApi(pt) ELSE handleSetDestinationApi(pt)
    /\ UNCHANGED pendingClicks
    /\ results' = << >>
    /\ photosToRemove' = {}
    /\ UNCHANGED photoVars

\* onChange of the route name input
setRouteName(name) ==
    /\ routeName' = name
    /\ savedRouteId' = NoId

\* a name check that does not trim
NameInvalidUntrimmed(name) == name = << >>

\* !routeName.trim()
NameInvalid(name) == Trim(name) = << >>

\* a save that never reuses the saved id
routeIdToSaveFresh == RouteIdString(nextRouteId)

\* savedRouteId || `route-${Date.now()...}-${Math.random()...}`
routeIdToSave ==
    IF savedRouteId # NoId THEN RouteIdString(savedRouteId[2])
    ELSE RouteIdString(nextRouteId)

\* handleSaveRoute up to the fetch of saveRouteAction; the Save button is
\* disabled while isSaving or while origin or destination is missing
handleSaveRoute ==
    /\ ~isSaving /\ origin # NoWaypoint /\ destination # NoWaypoint
    /\ IF NameInvalid(routeName)
       THEN /\ toasts' = {"Invalid Name"}
            /\ UNCHANGED << isSaving, saveRequest, nextRouteId >>
       ELSE IF origin = NoWaypoint \/ destination = NoWaypoint
       THEN /\ toasts' = {"Missing Points"}
            /\ UNCHANGED << isSaving, saveRequest, nextRouteId >>
       ELSE /\ isSaving' = TRUE
            /\ saveRequest' =
                   [stage |-> "sent", savedRouteId |-> savedRouteId,
                    body |-> Body(routeIdToSave, Name(routeName), Point(origin),
                                  Point(destination), Items(intermediateWaypoints),
                                  Items(photos), "temp_user_id")]
            /\ nextRouteId' = nextRouteId + (IF savedRouteId = NoId THEN 1 ELSE 0)
            /\ toasts' = {}
    /\ UNCHANGED << routeName, savedRouteId >>

\* POST /api/routes receiving the save in flight
savePosted(connected) ==
    /\ saveRequest.stage = "sent"
    /\ POST(saveRequest.body, connected)
    /\ saveRequest' = [saveRequest EXCEPT !.stage =
           IF pendingUpserts' = pendingUpserts THEN "answered" ELSE "inserting"]

\* the upsert of the save in flight inserting
saveInserted(retried) ==
    /\ saveRequest.stage = "inserting"
    /\ upsertInsert(1, retried)
    /\ saveRequest' = [saveRequest EXCEPT !.stage = "answered"]

\* a failure branch that also forgets the saved id
saveRouteResolvedClearing ==
    /\ saveRequest.stage = "answered"
    /\ IF response.status \in {200, 201}
       THEN /\ savedRouteId' =
                   << "route", CHOOSE n \in 1..nextRouteId : RouteIdString(n) = response.routeId >>
            /\ toasts' = {"Route Saved!"}
       ELSE /\ toasts' = {"Save Failed"}
            /\ savedRouteId' = NoId
    /\ isSaving' = FALSE
    /\ saveRequest' = NoSave
    /\ UNCHANGED << routeName, nextRouteId >>

\* handleSaveRoute after await saveRouteAction(routeData): result.routeId is
\* the id of the answer when the answer is ok
saveRouteResolved ==
    /\ saveRequest.stage = "answered"
    /\ IF response.status \in {200, 201}
       THEN /\ savedRouteId' =
                   << "route", CHOOSE n \in 1..nextRouteId : RouteIdString(n) = response.routeId >>
            /\ toasts' = {"Route Saved!"}
       ELSE /\ toasts' = {"Save Failed"}
            /\ UNCHANGED savedRouteId
    /\ isSaving' = FALSE
    /\ saveRequest' = NoSave
    /\ UNCHANGED << routeName, nextRouteId >>

\* what the handlers of the waypoints leave alone
sessionRest == << apiVars, sessionVars, alertDialog, conversion, directionsVars, serverVars, pageVars >>
\* what the save leaves alone
saveRest == << origin, destination, intermediateWaypoints, photos, isUploadingPhotos,
               photoUploadWaypointContext, pendingClicks, upload, results,
               photosToRemove, nextWaypointId, nextPhotoId, alertDialog, conversion,
               directionsVars, serverVars, pageVars >>

SessionMapClick ==
    /\ handleMapClick(ClickPoint(nextWaypointId + Len(pendingClicks)),
                      MaxSessionWaypoints, MaxPending)
    /\ UNCHANGED sessionRest
SessionGeocodeCallback ==
    /\ \E i \in 1..Len(pendingClicks) : geocodeCallbackApi(i)
    /\ UNCHANGED sessionRest
SessionPlaceChanged ==
    /\ \E g, toOrigin \in BOOLEAN :
           placeChangedApi(ClickPoint(nextWaypointId + Len(pendingClicks)), g, toOrigin,
                           MaxSessionWaypoints)
    /\ UNCHANGED sessionRest
SessionRemoveWaypoint ==
    /\ \E id \in WaypointIds : removeWaypoint(id)
    /\ UNCHANGED sessionRest
SetRouteName ==
    /\ \E name \in RouteNames : setRouteName(name)
    /\ UNCHANGED << toasts, isSaving, saveRequest, nextRouteId, apiVars, saveRest >>
SaveRoute ==
    /\ handleSaveRoute
    /\ UNCHANGED << apiVars, saveRest >>
SavePosted ==
    /\ \E connected \in BOOLEAN : savePosted(connected)
    /\ UNCHANGED << routeName, isSaving, nextRouteId, savedRouteId, toasts, saveRest >>
SaveInserted ==
    /\ \E retried \in BOOLEAN : saveInserted(retried)
    /\ UNCHANGED << routeName, isSaving, nextRouteId, savedRouteId, toasts, saveRest >>
SaveRouteResolved ==
    /\ saveRouteResolved
    /\ UNCHANGED << apiVars, saveRest >>

NextSession ==
    \/ SessionMapClick
    \/ SessionGeocodeCallback
    \/ SessionPlaceChanged
    \/ SessionRemoveWaypoint
    \/ SetRouteName
    \/ SaveRoute
    \/ SavePosted
    \/ SaveInserted
    \/ SaveRouteResolved

SpecSession == Init /\ [][NextSession]_vars

\* the step in which a save that failed resolves
SaveFails ==
    /\ saveRequest.stage = "answered"
    /\ saveRequest' = NoSave
    /\ response.status \notin {200, 201}

\* C21 as stated: when a save attempt has failed, savedRouteId is what it was
\* before the attempt and isSaving is false.
C21_AsStated ==
    [][SaveFails => (savedRouteId' = saveRequest.savedRouteId /\ isSaving' = FALSE)]_vars

\* C21: the failure of a save leaves savedRouteId as it was when the failure
\* arrived, which is its value before the attempt or null (cleared by an edit
\* made while the attempt was in flight), and sets isSaving to false; the
\* steps of the server while the attempt is in flight leave it alone.
C21_FailedSaveKeepsSavedId ==
    [][/\ SaveFails =>
            /\ savedRouteId' = savedRouteId
            /\ savedRouteId \in {saveRequest.savedRouteId, NoId}
            /\ isSaving' = FALSE
       /\ (isSaving /\ store' # store) => savedRouteId' = savedRouteId]_vars

\* a save that reused a confirmed id has failed and the id is still set
C21_Witness ==
    /\ toasts = {"Save Failed"}
    /\ ~isSaving
    /\ savedRouteId # NoId

\* the stored document is the route as the planner holds it
StoredAsEdited(d) ==
    /\ d.name = Trim(routeName)
    /\ origin # NoWaypoint /\ d.origin = origin
    /\ destination # NoWaypoint /\ d.destination = destination
    /\ d.intermediateWaypoints = intermediateWaypoints

\* C24: whenever savedRouteId is set and no save is in flight, the stored
\* document of that id has the name, origin, destination and intermediate
\* waypoints of the route in progress.
C24_SavedIdMeansStored ==
    (savedRouteId # NoId /\ ~isSaving) =>
        \E d \in Matching(RouteIdString(savedRouteId[2])) : StoredAsEdited(d)

\* ------------------------------------- photos of the API-backed planner
\* The API-backed planner uploads every selected file to /api/photos/upload
\* and adds its photo when the upload has answered.  upload holds the
\* selection in flight with the savedRouteId and the context of the handler's
\* closure and, per file, how far it is: "pending", "answered" (the fetch of
\* uploadPhotoAction has an answer) or "done" (its promise has resolved).
PendingFile == [stage |-> "pending", ok |-> FALSE, photo |-> NoPhoto]

\* extractLocationFromPhoto of the API-backed planner: FileReader and
\* EXIF.readFromBinaryFile, no image is loaded
extractLocationFromBinaryFile(file) ==
    IF ~file.readable THEN Rejected ELSE gpsLocation(file.gps)

\* the location and locationSource of a file, "none" when the map callback throws
ResolveUploadLocation(file, context) ==
    LET exif == extractLocationFromBinaryFile(file)
    IN  IF exif.ok
        THEN [location |-> Coordinates(exif.lat, exif.lng), locationSource |-> "exif"]
        ELSE IF context # NoContext
        THEN [location |-> context.location, locationSource |-> "waypoint"]
        ELSE [location |-> Coordinates(0, 0), locationSource |-> "none"]

\* whether the map callback of a file gets as far as uploadPhotoAction
Uploadable(file, context) ==
    file.readable /\ ResolveUploadLocation(file, context).locationSource # "none"

\* the body uploadPhotoAction sends: { routeId, photoDataUrl, ...photoInfo }
UploadBodyOf(file, context, routeId) ==
    LET r == ResolveUploadLocation(file, context)
    IN  UploadBody(routeId, "data:image/jpeg", Location(r.location),
                   LinkedWaypointId(r.locationSource, context), r.locationSource)

\* { id: result.photoId, url: result.photoUrl, ...photoInfo }
UploadedPhoto(file, context, result) ==
    LET r == ResolveUploadLocation(file, context)
    IN  [id |-> result.photoId, url |-> result.photoUrl, location |-> r.location,
         waypointId |-> LinkedWaypointId(r.locationSource, context),
         locationSource |-> r.locationSource]

\* handleAddPhotoClickFromWaypoint of the API-backed planner
handleAddPhotoClickFromWaypointApi(waypoint) ==
    /\ savedRouteId # NoId
    /\ handleAddPhotoClickFromWaypoint(waypoint)

\* handlePhotoFilesSelected of the API-backed planner up to Promise.all
handlePhotoFilesSelectedApi(files) ==
    /\ ~isUploadingPhotos
    /\ IF Len(files) = 0 \/ savedRouteId = NoId
       THEN /\ photoUploadWaypointContext' = NoContext
            /\ toasts' = IF savedRouteId = NoId THEN {"Save Route First"} ELSE {}
            /\ UNCHANGED << isUploadingPhotos, upload >>
       ELSE /\ isUploadingPhotos' = TRUE
            /\ upload' = [active |-> TRUE, files |-> files,
                          context |-> photoUploadWaypointContext,
                          routeId |-> RouteIdString(savedRouteId[2]),
                          state |-> [i \in 1..Len(files) |-> PendingFile]]
            /\ toasts' = {"Processing Photos..."}
            /\ UNCHANGED photoUploadWaypointContext
    /\ results' = << >>
    /\ photosToRemove' = {}
    /\ UNCHANGED << photos, nextPhotoId, savedRouteId >>
    /\ UNCHANGED waypointVars

\* a map callback that gives up once another file of the selection has failed
fileUploadedUnlessOneFailed(i, connected) ==
    /\ upload.active
    /\ i \in 1..Len(upload.files)
    /\ upload.state[i].stage = "pending"
    /\ LET file == upload.files[i]
           failed == \E j \in 1..Len(upload.files) :
                        upload.state[j].stage # "pending" /\ ~upload.state[j].ok
       IN  IF ~Uploadable(file, upload.context) \/ failed
           THEN /\ upload' = [upload EXCEPT !.state[i] =
                                  [stage |-> "done", ok |-> FALSE, photo |-> NoPhoto]]
                /\ UNCHANGED apiVars
           ELSE /\ POSTPhotoUpload(UploadBodyOf(file, upload.context, upload.routeId),
                                   connected)
                /\ upload' = [upload EXCEPT !.state[i] =
                       IF response'.status = 201
                       THEN [stage |-> "answered", ok |-> TRUE,
                             photo |-> UploadedPhoto(file, upload.context, response'.route)]
                       ELSE [stage |-> "answered", ok |-> FALSE, photo |-> NoPhoto]]
    /\ UNCHANGED << photos, isUploadingPhotos, photoUploadWaypointContext, nextPhotoId,
                    savedRouteId, toasts, results, photosToRemove >>
    /\ UNCHANGED waypointVars

\* the map callback of the i-th file up to the answer of its upload: the file
\* is read, its location resolved, and POST /api/photos/upload answers; a file
\* that cannot be read or has no location fails without a request
fileUploaded(i, connected) ==
    /\ upload.active
    /\ i \in 1..Len(upload.files)
    /\ upload.state[i].stage = "pending"
    /\ LET file == upload.files[i]
       IN  IF ~Uploadable(file, upload.context)
           THEN /\ upload' = [upload EXCEPT !.state[i] =
                                  [stage |-> "done", ok |-> FALSE, photo |-> NoPhoto]]
                /\ UNCHANGED apiVars
           ELSE /\ POSTPhotoUpload(UploadBodyOf(file, upload.context, upload.routeId),
                                   connected)
                /\ upload' = [upload EXCEPT !.state[i] =
                       IF response'.status = 201
                       THEN [stage |-> "answered", ok |-> TRUE,
                             photo |-> UploadedPhoto(file, upload.context, response'.route)]
                       ELSE [stage |-> "answered", ok |-> FALSE, photo |-> NoPhoto]]
    /\ UNCHANGED << photos, isUploadingPhotos, photoUploadWaypointContext, nextPhotoId,
                    savedRouteId, toasts, results, photosToRemove >>
    /\ UNCHANGED waypointVars

\* the map callback of the i-th file after await uploadPhotoAction(...)
fileResolved(i) ==
    /\ upload.active
    /\ i \in 1..Len(upload.files)
    /\ upload.state[i].stage = "answered"
    /\ photos' = IF upload.state[i].ok THEN Append(photos, upload.state[i].photo)
                 ELSE photos
    /\ upload' = [upload EXCEPT !.state[i].stage = "done"]
    /\ UNCHANGED << isUploadingPhotos, photoUploadWaypointContext, nextPhotoId,
                    savedRouteId, toasts, results, photosToRemove >>
    /\ UNCHANGED waypointVars

\* uploadResults.filter(res => res.success).length
photosAddedCount(uploadResults) ==
    Len(SelectSeq(uploadResults, LAMBDA res : res.success))

\* uploadResults.length - photosAddedCount
photosFailedCount(uploadResults) == Len(uploadResults) - photosAddedCount(uploadResults)

\* handlePhotoFilesSelected of the API-backed planner after Promise.all
uploadsSummarized ==
    /\ upload.active
    /\ \A i \in 1..Len(upload.files) : upload.state[i].stage = "done"
    /\ LET uploadResults == [i \in 1..Len(upload.files) |->
                                [file |-> upload.files[i], success |-> upload.state[i].ok]]
       IN  /\ results' = uploadResults
           /\ toasts' = { IF photosAddedCount(uploadResults) > 0
                          THEN "Photo Upload Complete" ELSE "Photo Upload Failed" }
    /\ isUploadingPhotos' = FALSE
    /\ photoUploadWaypointContext' = NoContext
    /\ upload' = NoUpload
    /\ photosToRemove' = {}
    /\ UNCHANGED << photos, nextPhotoId, savedRouteId >>
    /\ UNCHANGED waypointVars

\* the body of the first save of a route of two points
SavedBody ==
    Body(RouteIdString(1), Name(DefaultRouteName),
         Point(Waypoint(WaypointIdOf(1), ClickPoint(1).lat, ClickPoint(1).lng)),
         Point(Waypoint(WaypointIdOf(2), ClickPoint(2).lat, ClickPoint(2).lng)),
         Items(<< >>), Items(<< >>), "temp_user_id")

\* the planner after origin and destination were searched and the route saved
InitSaved ==
    /\ origin = Waypoint(WaypointIdOf(1), ClickPoint(1).lat, ClickPoint(1).lng)
    /\ destination = Waypoint(WaypointIdOf(2), ClickPoint(2).lat, ClickPoint(2).lng)
    /\ intermediateWaypoints = << >>
    /\ photos = << >>
    /\ isUploadingPhotos = FALSE
    /\ photoUploadWaypointContext = NoContext
    /\ savedRouteId = << "route", 1 >>
    /\ pendingClicks = << >>
    /\ upload = NoUpload
    /\ results = << >>
    /\ toasts = {"Route Saved!"}
    /\ photosToRemove = {}
    /\ nextWaypointId = 3
    /\ nextPhotoId = 1
    /\ store = {InsertedDocument(SavedBody, 1, 1)}
    /\ pendingUpserts = << >>
    /\ response = Response("POST", RouteIdString(1), SavedBody, 201, NoRoute)
    /\ viewRoute = NoRoute
    /\ clock = 1
    /\ nextObjectId = 2
    /\ viewError = ""
    /\ routeName = DefaultRouteName
    /\ isSaving = FALSE
    /\ saveRequest = NoSave
    /\ nextRouteId = 2
    /\ alertDialog = NoId
    /\ conversion = NoConversion
    /\ directions = NoDirections
    /\ pendingRoutes = << >>
    /\ ServerInit

\* the files of a selection: with complete tags, without tags, unreadable
BatchFiles ==
    { [readable |-> TRUE, decodable |-> TRUE, gps |-> CompleteTags],
      [readable |-> TRUE, decodable |-> TRUE, gps |-> AbsentTags],
      [readable |-> FALSE, decodable |-> TRUE, gps |-> AbsentTags] }

BatchSelections == UNION { [1..n -> BatchFiles] : n \in 0..MaxBatch }

BatchAddPhotoClick ==
    /\ \E w \in AllWaypoints : handleAddPhotoClickFromWaypointApi(w)
    /\ UNCHANGED << apiVars, extVars >>
BatchFilesSelected ==
    /\ \E files \in BatchSelections : handlePhotoFilesSelectedApi(files)
    /\ UNCHANGED << apiVars, extVars >>
BatchFileUploaded ==
    /\ \E i \in 1..Len(upload.files), connected \in BOOLEAN : fileUploaded(i, connected)
    /\ UNCHANGED extVars
BatchFileResolved ==
    /\ \E i \in 1..Len(upload.files) : fileResolved(i)
    /\ UNCHANGED << apiVars, extVars >>
BatchSummarized ==
    /\ uploadsSummarized
    /\ UNCHANGED << apiVars, extVars >>

NextBatch ==
    \/ BatchAddPhotoClick
    \/ BatchFilesSelected
    \/ BatchFileUploaded
    \/ BatchFileResolved
    \/ BatchSummarized

SpecBatch == InitSaved /\ [][NextBatch]_vars

\* the photos of the stored route documents
StoredPhotoIds == UNION { { d.photos[i].id : i \in 1..Len(d.photos) } : d \in store }

\* C22: each file of a selection is processed on its own: whatever became of
\* the other files, a request is sent for it exactly when the file is read
\* and its location resolved, and its upload succeeds exactly when the
\* endpoint answers 201 to that request; its photo
\* is appended exactly when its upload succeeded, and no other step of the
\* selection changes the photos, so that every photo of the planner is in the
\* stored document; when the selection is finished the successes are the files
\* whose photo is in the collection, and the counts of successes and failures
\* sum to the number of files selected.
C22_FilesProcessedIndependently ==
    [][/\ \A i \in 1..Len(upload.files) :
            /\ (upload.state[i].stage = "pending" /\ upload'.state[i] # upload.state[i]) =>
                   /\ Uploadable(upload.files[i], upload.context) = (clock' # clock)
                   /\ upload'.state[i].ok = (clock' # clock /\ response'.status = 201)
                   /\ photos' = photos
            /\ (upload.state[i].stage = "answered" /\ upload'.state[i] # upload.state[i]) =>
                   photos' = IF upload.state[i].ok
                             THEN Append(photos, upload.state[i].photo) ELSE photos
       /\ photos' # photos =>
             \E i \in 1..Len(upload.files) :
                 upload.state[i].stage = "answered" /\ upload.state[i].ok
                 /\ upload'.state[i].stage = "done"
       /\ \A i \in 1..Len(photos') : photos'[i].id \in StoredPhotoIds'
       /\ (upload.active /\ ~upload'.active) =>
             /\ Len(results') = Len(upload.files)
             /\ photosAddedCount(results') + photosFailedCount(results') = Len(upload.files)
             /\ photosAddedCount(results') >= 0 /\ photosFailedCount(results') >= 0
             /\ \A i \in 1..Len(upload.files) :
                    /\ results'[i].success = upload.state[i].ok
                    /\ results'[i].success =
                          (\E k \in 1..Len(photos') : photos'[k] = upload.state[i].photo)]_vars

\* a selection of two files has finished: the first file failed, the photo of
\* the second is in the collection
C22_Witness ==
    /\ ~upload.active
    /\ Len(results) = 2
    /\ ~results[1].success /\ results[2].success
    /\ Len(photos) = 1

\* uploads and saves of the API-backed planner side by side: the Save button
\* is not disabled while photos are uploading.  The route is stored from the
\* start and never deleted, so every save is answered as an update.
NextBatchSave ==
    \/ BatchAddPhotoClick
    \/ BatchFilesSelected
    \/ BatchFileUploaded
    \/ BatchFileResolved
    \/ BatchSummarized
    \/ SaveRoute
    \/ SavePosted
    \/ SaveRouteResolved

SpecBatchSave == InitSaved /\ [][NextBatchSave]_vars

\* C26: a photo whose upload has answered success is in the photos of the
\* stored route document from then on (no photo is removed and no route
\* deleted in these behaviours), whether the planner has added it yet or not.
C26_UploadedPhotoStaysStored ==
    /\ \A i \in 1..Len(photos) : photos[i].id \in StoredPhotoIds
    /\ upload.active =>
          \A i \in 1..Len(upload.files) :
              upload.state[i].ok => upload.state[i].photo.id \in StoredPhotoIds

\* ----------------------------------------------- share view, navigation
\* The effect of ViewRoutePage runs when params.routeId changes; it has no
\* cleanup, so the fetch of the routeId before goes on and its then/finally run
\* when it resolves.
ViewRouteIds == { RouteIdString(1), RouteIdString(2), RouteIdString(3) }

\* the effect of ViewRoutePage for a routeId other than the current one
viewRouteIdChanged(routeId) ==
    /\ routeId # routeIdParam
    /\ Len(viewFetches) < MaxViewFetches
    /\ routeIdParam' = routeId
    /\ IF routeId = ""
       THEN /\ loading' = FALSE
            /\ viewError' = "Invalid route ID"
            /\ UNCHANGED << viewRoute, viewFetches >>
       ELSE /\ loading' = TRUE
            /\ viewError' = ""
            /\ viewRoute' = NoRoute
            /\ viewFetches' = Append(viewFetches, routeId)
    /\ UNCHANGED << store, pendingUpserts, response, clock, nextObjectId >>

\* the i-th fetch in flight is answered and the then and finally of the
\* effect that started it run
viewFetchResolved(i, connected) ==
    /\ i \in 1..Len(viewFetches)
    /\ fetchRouteData(viewFetches[i], connected)
    /\ viewError' = IF viewRoute' # NoRoute THEN viewError ELSE "Route not found"
    /\ loading' = FALSE
    /\ viewFetches' = RemoveAt(viewFetches, i)
    /\ UNCHANGED routeIdParam

viewRest == << plannerVars, sessionVars, alertDialog, conversion, directionsVars,
              serverVars, fileDialog >>

ViewRouteIdChanged ==
    /\ \E routeId \in ViewRouteIds : viewRouteIdChanged(routeId)
    /\ UNCHANGED viewRest
ViewFetchResolved ==
    /\ \E i \in 1..Len(viewFetches), connected \in BOOLEAN : viewFetchResolved(i, connected)
    /\ UNCHANGED viewRest

NextView ==
    \/ ViewRouteIdChanged
    \/ ViewFetchResolved

SpecView == InitSaved /\ [][NextView]_vars

\* C27: when loading is false and a route is displayed, its id is the
\* current routeId; error and route data are never both set.
C27_DisplayedRouteIsCurrent ==
    /\ (~loading /\ viewRoute # NoRoute) => viewRoute.id = routeIdParam
    /\ ~(viewError # "" /\ viewRoute # NoRoute)

\* ------------------------------------------------------------ authorize
\* Usernames and passwords are kept as their characters; << >> stands for a
\* credential that is missing or empty (both are falsy).  DUMMY_USERS holds the
\* own properties of the object; a lookup DUMMY_USERS[name] also finds what the
\* object inherits from Object.prototype.
LowerCaseChar(c) ==
    CASE c = "A" -> "a"
      [] c = "B" -> "b"
      [] c = "C" -> "c"
      [] OTHER -> c

\* String.prototype.toLowerCase
toLowerCase(chars) == [i \in 1..Len(chars) |-> LowerCaseChar(chars[i])]

\* the properties of Object.prototype whose names are in lower case
InheritedKeys ==
    { << "c", "o", "n", "s", "t", "r", "u", "c", "t", "o", "r" >>,
      << "_", "_", "p", "r", "o", "t", "o", "_", "_" >> }

AdminName == << "a", "d", "m", "i", "n" >>
AdminPassword == << "p", "a", "s", "s", "w", "o", "r", "d" >>

Usernames ==
    { << >>, AdminName, << "A", "d", "m", "i", "n" >>, << "b", "o" >>, << "B", "o" >>,
      << "c", "y" >>, << "C", "o", "n", "s", "t", "r", "u", "c", "t", "o", "r" >> }
Passwords == { << >>, AdminPassword, << "p" >>, << "q" >> }

NoUser == [found |-> FALSE, username |-> << >>]
User(name) == [found |-> TRUE, username |-> name]

\* addDummyUser(user, pass)
addDummyUser(user, pass) ==
    DUMMY_USERS' = [u \in DOMAIN DUMMY_USERS \cup {user} |->
                       IF u = user THEN pass ELSE DUMMY_USERS[u]]

\* authorize(credentials)
authorize(username, password) ==
    LET lowerCaseUsername == toLowerCase(username)
    IN  IF username = << >> \/ password = << >>
        THEN /\ authorizeResult' = [called |-> TRUE, username |-> username,
                                    password |-> password, user |-> NoUser]
             /\ UNCHANGED DUMMY_USERS
        ELSE IF lowerCaseUsername \in DOMAIN DUMMY_USERS \cup InheritedKeys
        THEN /\ authorizeResult' =
                    [called |-> TRUE, username |-> username, password |-> password,
                     user |-> IF lowerCaseUsername \in DOMAIN DUMMY_USERS
                                 /\ DUMMY_USERS[lowerCaseUsername] = password
                              THEN User(lowerCaseUsername) ELSE NoUser]
             /\ UNCHANGED DUMMY_USERS
        ELSE /\ addDummyUser(lowerCaseUsername, password)
             /\ authorizeResult' = [called |-> TRUE, username |-> username,
                                    password |-> password, user |-> User(lowerCaseUsername)]

Authorize ==
    /\ \E username \in Usernames, password \in Passwords : authorize(username, password)
    /\ UNCHANGED << plannerVars, apiVars, sessionVars, alertDialog, conversion,
                    directionsVars, cached, connects, dbCalls, pageVars >>

NextAuth == Authorize

SpecAuth == Init /\ [][NextAuth]_vars

\* C29: authorize returns null and registers nothing when the username or
\* the password is missing; it registers an unknown username (compared in
\* lower case) with the password supplied and returns its user; for a
\* registered username it returns the user exactly when the password is the
\* stored one, and leaves the stored passwords as they are.
C29_AuthorizeRegistersOnce ==
    [][LET username == authorizeResult'.username
           password == authorizeResult'.password
           name == toLowerCase(username)
       IN  IF username = << >> \/ password = << >>
           THEN authorizeResult'.user = NoUser /\ DUMMY_USERS' = DUMMY_USERS
           ELSE IF name \notin DOMAIN DUMMY_USERS
           THEN /\ authorizeResult'.user = User(name)
                /\ DOMAIN DUMMY_USERS' = DOMAIN DUMMY_USERS \cup {name}
                /\ DUMMY_USERS'[name] = password
                /\ \A u \in DOMAIN DUMMY_USERS : DUMMY_USERS'[u] = DUMMY_USERS[u]
           ELSE /\ authorizeResult'.user =
                       IF DUMMY_USERS[name] = password THEN User(name) ELSE NoUser
                /\ DUMMY_USERS' = DUMMY_USERS]_vars

\* ------------------------------------------------------------ dbConnect
\* Every handler awaits dbConnect() first.  A call runs up to its await; the
\* settling of mongoose.connect runs the then/catch chained to it and queues
\* the continuations of the calls that await the promise; a continuation runs
\* the rest of the call.  A connection is named by the number of the connect
\* call that made it.
DbCall(stage, promise, conn) == [stage |-> stage, promise |-> promise, conn |-> conn]

\* continuations of settled awaits are queued
JobsQueued == \E i \in 1..Len(dbCalls) : dbCalls[i].stage = "settled"

\* a dbConnect that does not look at cached.promise
dbConnectUnshared ==
    /\ Len(dbCalls) < MaxConnectCalls
    /\ ~JobsQueued
    /\ IF cached.conn # 0
       THEN /\ dbCalls' = Append(dbCalls, DbCall("returned", 0, cached.conn))
            /\ UNCHANGED << cached, connects >>
       ELSE /\ connects' = Append(connects, "pending")
            /\ cached' = [cached EXCEPT !.promise = Len(connects) + 1]
            /\ dbCalls' = Append(dbCalls, DbCall("awaiting", Len(connects) + 1, 0))

\* dbConnect() up to its return of cached.conn or its await of cached.promise.
\* A handler starts in a task of its own: the continuations queued by the task
\* before it have run by then.
dbConnect ==
    /\ Len(dbCalls) < MaxConnectCalls
    /\ ~JobsQueued
    /\ IF cached.conn # 0
       THEN /\ dbCalls' = Append(dbCalls, DbCall("returned", 0, cached.conn))
            /\ UNCHANGED << cached, connects >>
       ELSE IF cached.promise = 0
       THEN /\ connects' = Append(connects, "pending")
            /\ cached' = [cached EXCEPT !.promise = Len(connects) + 1]
            /\ dbCalls' = Append(dbCalls, DbCall("awaiting", Len(connects) + 1, 0))
       ELSE /\ dbCalls' = Append(dbCalls, DbCall("awaiting", cached.promise, 0))
            /\ UNCHANGED << cached, connects >>

\* mongoose.connect of the k-th attempt resolves (.then) or rejects (.catch
\* resets cached.promise); the calls awaiting its promise are resumed
connectSettled(k, ok) ==
    /\ k \in 1..Len(connects)
    /\ connects[k] = "pending"
    /\ ~JobsQueued
    /\ connects' = [connects EXCEPT ![k] = IF ok THEN "resolved" ELSE "rejected"]
    /\ cached' = IF ok THEN cached ELSE [cached EXCEPT !.promise = 0]
    /\ dbCalls' = [i \in 1..Len(dbCalls) |->
                      IF dbCalls[i].stage = "awaiting" /\ dbCalls[i].promise = k
                      THEN [dbCalls[i] EXCEPT !.stage = "settled"]
                      ELSE dbCalls[i]]

\* dbConnect() after its await: the try block sets cached.conn and returns
\* it, the catch block resets cached.promise and throws; continuations run in
\* the order of the awaits
dbConnectResumed(i) ==
    /\ i \in 1..Len(dbCalls)
    /\ dbCalls[i].stage = "settled"
    /\ \A j \in 1..(i - 1) : dbCalls[j].stage # "settled"
    /\ IF connects[dbCalls[i].promise] = "resolved"
       THEN /\ cached' = [cached EXCEPT !.conn = dbCalls[i].promise]
            /\ dbCalls' = [dbCalls EXCEPT ![i] = DbCall("returned", @.promise, @.promise)]
       ELSE /\ cached' = [cached EXCEPT !.promise = 0]
            /\ dbCalls' = [dbCalls EXCEPT ![i] = DbCall("thrown", @.promise, 0)]
    /\ UNCHANGED connects

connectRest == << plannerVars, apiVars, sessionVars, alertDialog, conversion,
                 directionsVars, DUMMY_USERS, authorizeResult, pageVars >>

DbConnect ==
    /\ dbConnect
    /\ UNCHANGED connectRest
ConnectSettled ==
    /\ \E k \in 1..Len(connects), ok \in BOOLEAN : connectSettled(k, ok)
    /\ UNCHANGED connectRest
DbConnectResumed ==
    /\ \E i \in 1..Len(dbCalls) : dbConnectResumed(i)
    /\ UNCHANGED connectRest

NextConnect ==
    \/ DbConnect
    \/ ConnectSettled
    \/ DbConnectResumed

SpecConnect == Init /\ [][NextConnect]_vars

\* the connect attempts that have not settled
Outstanding(cs) == { k \in 1..Len(cs) : cs[k] = "pending" }
\* the connect attempts that succeeded
Succeeded(cs) == { k \in 1..Len(cs) : cs[k] = "resolved" }

\* C23: at most one connect attempt is outstanding at a time; once an attempt
\* has succeeded no further attempt is started, every call that returns
\* returns the connection of that attempt, and a call made once cached.conn
\* is set returns it at once.
C23_OneConnectAttempt ==
    [][/\ Cardinality(Outstanding(connects')) <= 1
       /\ Succeeded(connects) # {} => Len(connects') = Len(connects)
       /\ \A i \in 1..Len(dbCalls') :
              dbCalls'[i].stage = "returned" => Succeeded(connects') = {dbCalls'[i].conn}
       /\ (cached.conn # 0 /\ Len(dbCalls') > Len(dbCalls)) =>
              dbCalls'[Len(dbCalls')] = DbCall("returned", 0, cached.conn)]_vars

\* the first attempt failed, the second succeeded, and a later call has
\* returned the cached connection
C23_Witness ==
    /\ connects = << "rejected", "resolved" >>
    /\ \E i \in 1..Len(dbCalls) : dbCalls[i] = DbCall("returned", 0, 2)
    /\ \E i \in 1..Len(dbCalls) : dbCalls[i].stage = "thrown"

\* ------------------------------------------------------- photo upload
\* saves and photo uploads, the bodies of the saves as the planner sends them
UploadPost ==
    /\ \E body \in CompleteBodies, connected \in BOOLEAN : POST(body, connected)
    /\ UNCHANGED << plannerVars, extVars >>
Upload ==
    /\ \E body \in UploadBodies, connected \in BOOLEAN : POSTPhotoUpload(body, connected)
    /\ UNCHANGED << plannerVars, extVars >>

NextUpload ==
    \/ UploadPost
    \/ UpsertInsert
    \/ Upload

SpecUpload == Init /\ [][NextUpload]_vars

\* --------------------------------------------------------- API properties
\* a step in which POST answers: at once, or when its insert is done
PostAnswered ==
    /\ response'.op = "POST"
    /\ \/ clock' = clock + 1 /\ pendingUpserts' = pendingUpserts
       \/ Len(pendingUpserts') < Len(pendingUpserts)

\* a step in which the handler op of /api/routes/[routeId] answers
Answered(op) ==
    response'.op = op /\ clock' = clock + 1 /\ pendingUpserts' = pendingUpserts

Saved(r) == r.op = "POST" /\ r.status \in {200, 201}

\* a POST that is answered right after the POST of the same body was
RepeatedPost ==
    /\ Saved(response)
    /\ PostAnswered
    /\ Saved(response')
    /\ response'.body = response.body

OneDocumentPerId == \A d, e \in store : d.id = e.id => d = e

\* the route a stored document holds, without what the store adds
PhotoContent(photo) ==
    [id |-> photo.id, location |-> photo.location, waypointId |-> photo.waypointId,
     locationSource |-> photo.locationSource]

RouteContent(doc) ==
    [id |-> doc.id, name |-> doc.name, origin |-> doc.origin,
     destination |-> doc.destination,
     intermediateWaypoints |-> doc.intermediateWaypoints,
     photos |-> [i \in 1..Len(doc.photos) |-> PhotoContent(doc.photos[i])],
     creatorId |-> doc.creatorId, createdAt |-> doc.createdAt]

\* C7: POST /api/routes is an upsert keyed by id: after any sequence of POSTs,
\* duplicate and concurrent ones included, the store holds at most one document
\* per id, and a POST repeated with the same body is answered 200 and leaves
\* the stored documents as they were but for updatedAt and the _id of the
\* photos, which every POST sets anew.
C7_IdempotentUpsert ==
    [][/\ OneDocumentPerId'
       /\ RepeatedPost =>
              /\ response'.status = 200
              /\ { RouteContent(d) : d \in store' } = { RouteContent(d) : d \in store }
              /\ Cardinality(store') = Cardinality(store)]_vars

\* the same complete body has been posted twice: one document with its id,
\* created by the first POST and updated by the second
C7_Witness ==
    /\ Saved(response)
    /\ response.status = 200
    /\ response.body.photos = Items(PhotosSent)
    /\ pendingUpserts = << >>
    /\ \E d \in store :
           /\ Matching(response.body.id) = {d}
           /\ d.createdAt < d.updatedAt
           /\ RouteContent(d).photos = PhotosSent
           /\ d.name = Trim(response.body.name.chars)

\* C7 as stated: at most one document per id, and a POST repeated with the same
\* body leaves the stored document as it was after the first.
C7_AsStated ==
    [][/\ OneDocumentPerId'
       /\ RepeatedPost => store' = store]_vars

\* a body that is a route document: both arrays, every photo with its source
IsRouteDocument(body) ==
    /\ body.intermediateWaypoints.def
    /\ body.photos.def
    /\ \A i \in 1..Len(body.photos.items) : body.photos.items[i].locationSource # ""

\* the share view loads, for the first time, the route whose POST was the last
\* request answered
LoadedAfterSave ==
    /\ Saved(response)
    /\ IsRouteDocument(response.body)
    /\ Answered("GET")
    /\ response'.routeId = response.body.id
    /\ response'.status = 200
    /\ viewRoute = NoRoute
    /\ viewRoute' # NoRoute

\* C8: a route document saved with POST /api/routes and then loaded by the
\* share view comes back with the origin, destination and intermediateWaypoints
\* that were saved and with the photos that were saved, in the same order and
\* equal in every field that was sent; each photo loaded carries in addition the
\* _id the store gave it.
C8_SaveLoadRoundTrip ==
    [][LoadedAfterSave =>
          LET saved == response.body
              loaded == viewRoute'
          IN  /\ loaded.origin = saved.origin.w
              /\ loaded.destination = saved.destination.w
              /\ loaded.intermediateWaypoints = saved.intermediateWaypoints.items
              /\ Len(loaded.photos) = Len(saved.photos.items)
              /\ \A i \in 1..Len(loaded.photos) :
                     /\ PhotoContent(loaded.photos[i]) = saved.photos.items[i]
                     /\ DOMAIN loaded.photos[i] = DOMAIN saved.photos.items[i] \cup {"_id"}]_vars

\* the share view holds the route saved with two stops and two photos, the
\* photo linked to a stop first
C8_Witness ==
    /\ viewRoute # NoRoute
    /\ response.op = "GET" /\ response.status = 200
    /\ viewRoute.intermediateWaypoints = StopsSent
    /\ Len(viewRoute.photos) = 2
    /\ viewRoute.photos[1].id = "photo-1" /\ viewRoute.photos[1].waypointId = "wp-3"
    /\ viewRoute.photos[2].locationSource = "exif"

\* C8 as stated: origin, destination, intermediateWaypoints and photos come
\* back identical to what was saved, the arrays in the same order.
C8_AsStated ==
    [][LoadedAfterSave =>
          LET saved == response.body
              loaded == viewRoute'
          IN  /\ loaded.origin = saved.origin.w
              /\ loaded.destination = saved.destination.w
              /\ loaded.intermediateWaypoints = saved.intermediateWaypoints.items
              /\ Len(loaded.photos) = Len(saved.photos.items)
              /\ \A i \in 1..Len(loaded.photos) :
                     /\ PhotoContent(loaded.photos[i]) = saved.photos.items[i]
                     /\ DOMAIN loaded.photos[i] = DOMAIN saved.photos.items[i]]_vars

Lacks(field) == ~field.def \/ field.chars = << >>

C10_AbsentRoute ==
    [][\A op \in {"GET", "PUT", "DELETE"} :
          (Answered(op) /\ response'.connected) =>
              LET routeId == response'.routeId
                  body == response'.body
                  absent == ~\E d \in store : d.id = routeId
              IN  /\ absent =>
                         /\ store' = store
                         /\ response'.status =
                                (IF op = "PUT" /\ IdGiven(body.id) /\ body.id # routeId THEN 400
                                 ELSE IF op = "PUT" /\ body.name.def
                                         /\ Trim(body.name.chars) = << >> THEN 500
                                 ELSE 404)
                  /\ (op = "GET" /\ ~absent) =>
                         /\ response'.status = 200
                         /\ \E d \in store :
                                /\ d.id = routeId
                                /\ RouteContent(d) = [RouteContent(d) EXCEPT
                                       !.id = response'.route.id,
                                       !.name = response'.route.name,
                                       !.origin = response'.route.origin,
                                       !.destination = response'.route.destination,
                                       !.intermediateWaypoints =
                                           response'.route.intermediateWaypoints]
                                /\ response'.route.photos = d.photos
                         /\ store' = store
                  /\ (op \in {"GET", "DELETE"} /\ response.op = "DELETE"
                          /\ response.status = 200 /\ response.routeId = routeId) =>
                         response'.status = 404
      ]_vars

\* a route that was stored and deleted has been asked for, or deleted again,
\* and the answer was 404
C10_Witness ==
    /\ response.op \in {"GET", "DELETE"}
    /\ response.status = 404
    /\ Matching(response.routeId) = {}
    /\ nextObjectId > 1
    /\ clock = MaxRequests
    /\ store = {}

\* C10 as stated, for PUT: with no document of id routeId stored, PUT responds
\* 404 and leaves the store unchanged.
C10_AsStated ==
    [][(Answered("PUT") /\ response'.connected) =>
          (~(\E d \in store : d.id = response'.routeId) =>
               response'.status = 404 /\ store' = store)]_vars

\* a step in which POST /api/photos/upload answers a request it could read
\* with the database connected
UploadAnswered == Answered("UPLOAD") /\ response'.connected

\* the stored route of the request just answered, before the request
TargetRoutes == { d \in store : d.id = response'.routeId }

\* doc after the upload is doc before it with p appended to photos, every
\* other field but those of except kept
AppendedTo(before, after, p, except) ==
    /\ after.photos = Append(before.photos, p)
    /\ \A f \in (DOMAIN before) \ ({"photos"} \cup except) : after[f] = before[f]
    /\ DOMAIN after = DOMAIN before

\* the photo a 201 tells of is the one appended, under an id the route has not seen
UploadAppends(except) ==
    \E d \in TargetRoutes, e \in store' :
        /\ store' = (store \ {d}) \cup {e}
        /\ Len(e.photos) = Len(d.photos) + 1
        /\ LET p == e.photos[Len(e.photos)]
           IN  /\ AppendedTo(d, e, p, except)
               /\ \A i \in 1..Len(d.photos) : d.photos[i].id # p.id
               /\ response'.route.photoId = p.id
               /\ response'.route.photoUrl = p.url
               /\ p.location = response'.body.location.c
               /\ p.locationSource = response'.body.locationSource

C12_NotFoundApart ==
    [][\A routeId \in RouteIds, connected \in BOOLEAN :
          ViewRoutePageLoad(routeId, connected) =>
              ((viewError' = "Route not found") <=> (response'.status = 404))]_vars

\* ------------------------------------------------------ save properties
\* a step in which handleSaveRoute sends a save request
SaveSent == saveRequest.stage = "none" /\ saveRequest'.stage = "sent"

\* the route can be saved: the trimmed name is non-empty, origin and destination are set
Persistable ==
    Trim(routeName) # << >> /\ origin # NoWaypoint /\ destination # NoWaypoint

\* C13: handleSaveRoute sends a save request exactly when the trimmed route
\* name is non-empty and origin and destination are set; otherwise no request
\* is sent, the store and savedRouteId stay as they are and a validation toast
\* is raised; no request carries a name that is blank after trimming.
C13_SaveOnlyPersistable ==
    [][(handleSaveRoute =>
           IF Persistable
           THEN SaveSent /\ saveRequest'.body.origin.w = origin
                /\ saveRequest'.body.destination.w = destination
                /\ saveRequest'.body.name.chars = routeName
           ELSE /\ saveRequest' = saveRequest /\ isSaving' = isSaving
                /\ store' = store /\ pendingUpserts' = pendingUpserts
                /\ savedRouteId' = savedRouteId
                /\ toasts' \in {{"Invalid Name"}, {"Missing Points"}})
       /\ (SaveSent => Persistable)
       /\ (store' # store => saveRequest.stage \in {"sent", "inserting"}
                                /\ Trim(saveRequest.body.name.chars) # << >>)]_vars

\* a save of a blank name was refused while a saved id was held and a
\* document stored
C13_Witness ==
    /\ toasts = {"Invalid Name"}
    /\ routeName = << " " >>
    /\ origin # NoWaypoint /\ destination # NoWaypoint
    /\ savedRouteId # NoId
    /\ saveRequest = NoSave
    /\ Cardinality(store) = 1

C20_SetEndpointInvalidatesSavedId ==
    [][((origin' # origin /\ origin' # NoWaypoint)
           \/ (destination' # destination /\ destination' # NoWaypoint))
          => savedRouteId' = NoId]_vars

\* the origin was replaced after the route was saved: the stored document
\* holds the earlier origin and no saved id is held
C20_Witness ==
    /\ savedRouteId = NoId
    /\ origin # NoWaypoint
    /\ toasts \in {{}, {"Origin Set"}}
    /\ \E d \in store : d.origin.id # origin.id /\ d.destination = destination


\* ------------------------------------------------- photo reconciliation
\* the embedded GPS tags of a file are complete and convert to valid numbers
GpsValid(file) == gpsLocation(file.gps).ok

\* degrees, minutes, seconds and hemisphere as a signed count of arc seconds
ArcSeconds(dms, ref) ==
    (IF ref \in {"S", "W"} THEN 0 - 1 ELSE 1)
    * (3600 * dms.arr[1].v + 60 * dms.arr[2].v + dms.arr[3].v)

ExifCoordinate(file) ==
    Coordinates(ArcSeconds(file.gps.lat, file.gps.latRef),
                ArcSeconds(file.gps.lon, file.gps.lonRef))

IsExifPhotoOf(photo, file) ==
    /\ photo # NoPhoto
    /\ photo.locationSource = "exif"
    /\ photo.location = ExifCoordinate(file)
    /\ photo.waypointId = NoId

\* C1: removeWaypoint(id) removes from the photo collection exactly the photos
\* whose waypointId is id and whose locationSource is 'waypoint'; every other
\* photo is kept, in its place.
C1_RemoveWaypointCascade ==
    [][\A id \in WaypointIds :
          (WaypointIds' = WaypointIds \ {id}) =>
              photos' = SelectSeq(photos, LAMBDA p :
                            ~(p.waypointId = id /\ p.locationSource = "waypoint"))]_vars

\* a waypoint has just been removed, the removal took a linked photo with it
\* and left a photo linked to another waypoint
C1_Witness ==
    /\ toasts \cap {"Origin Removed", "Destination Removed", "Waypoint Removed"} # {}
    /\ photosToRemove # {}
    /\ \E p \in SeqToSet(photos) :
           p.locationSource = "waypoint" /\ p.waypointId \in WaypointIds

\* C2: in every reachable state each photo of the collection has a waypointId
\* only if its locationSource is 'waypoint'; a photo with locationSource 'exif'
\* carries none.
C2_WaypointIdOnlyWithWaypointSource ==
    \A p \in SeqToSet(photos) :
        /\ p.locationSource \in {"exif", "waypoint"}
        /\ p.waypointId # NoId => p.locationSource = "waypoint"
        /\ p.locationSource = "exif" => p.waypointId = NoId

\* the collection holds a photo located by its tags although it was selected
\* from a waypoint, next to a photo linked to a waypoint
C2_Witness ==
    /\ \E i \in 1..Len(results) :
           /\ results[i].context # NoContext
           /\ results[i].photo.locationSource = "exif"
           /\ results[i].photo \in SeqToSet(photos)
    /\ \E p \in SeqToSet(photos) : p.locationSource = "waypoint" /\ p.waypointId # NoId

\* C3: for every selected file that is read and loads as an image and whose
\* embedded GPS tags are complete and convert to valid numbers, a photo is added
\* whose locationSource is 'exif', whose location is the converted coordinate
\* and whose waypointId is unset, whether or not a waypoint upload context was
\* active.
C3_ExifLocationWins ==
    \A i \in 1..Len(results) :
        LET r == results[i]
        IN  (r.file.readable /\ r.file.decodable /\ GpsValid(r.file)) =>
                /\ IsExifPhotoOf(r.photo, r.file)
                /\ r.photo \in SeqToSet(photos)

\* a file with southern latitude and western longitude, selected from a
\* waypoint, has become a photo at -37 46 30, -122 25 10
C3_Witness ==
    \E i \in 1..Len(results) :
        /\ results[i].context # NoContext
        /\ results[i].file.gps = SouthernTags
        /\ results[i].photo.locationSource = "exif"
        /\ results[i].photo.location = Coordinates(0 - 135990, 0 - 440710)
        /\ results[i].photo \in SeqToSet(photos)

\* C3 as stated: every selected file whose embedded GPS tags are complete and
\* convert to valid numbers, if it becomes a photo, becomes one with
\* locationSource 'exif', the converted coordinate and no waypointId.
C3_AsStated ==
    \A i \in 1..Len(results) :
        LET r == results[i]
        IN  (GpsValid(r.file) /\ r.photo # NoPhoto) => IsExifPhotoOf(r.photo, r.file)

\* C4: for every selected file with absent or invalid GPS tags that is processed
\* with a waypoint upload context, the photo added (one is, if the file can be
\* read) has the coordinate of the context's waypoint as location,
\* locationSource 'waypoint' and the id of that waypoint as waypointId.
C4_WaypointFallback ==
    \A i \in 1..Len(results) :
        LET r == results[i]
        IN  (~GpsValid(r.file) /\ r.context # NoContext /\ r.file.readable) =>
                /\ r.photo # NoPhoto
                /\ r.photo \in SeqToSet(photos)
                /\ r.photo.location = r.context.location
                /\ r.photo.locationSource = "waypoint"
                /\ r.photo.waypointId = r.context.id
                /\ \A w \in AllWaypoints :
                       w.id = r.photo.waypointId =>
                           r.photo.location = Coordinates(w.lat, w.lng)

\* a file without latitude tag, selected from the second waypoint created, has
\* become a photo at that waypoint, which is still on the route
C4_Witness ==
    \E i \in 1..Len(results) :
        /\ results[i].file.gps = AbsentTags
        /\ results[i].file.readable
        /\ results[i].context.id = WaypointIdOf(2)
        /\ results[i].photo.waypointId = WaypointIdOf(2)
        /\ results[i].photo.location = ClickPoint(2)
        /\ WaypointIdOf(2) \in WaypointIds

\* C5: for every selected file with absent or invalid GPS tags that is processed
\* without waypoint upload context, no photo is added for the file and a
\* destructive toast is raised for it; the photos already in the collection
\* stay as they are, the new ones being appended.
C5_NoLocationNoPhoto ==
    [][(upload.active /\ ~upload'.active) =>
          /\ Len(results') = Len(upload.files)
          /\ \A i \in 1..Len(upload.files) :
                 (~GpsValid(upload.files[i]) /\ upload.context = NoContext) =>
                     /\ results'[i].photo = NoPhoto
                     /\ results'[i].toast =
                            (IF upload.files[i].readable THEN "Location Missing"
                             ELSE "Upload Error")
                     /\ results'[i].toast \in toasts'
          /\ SubSeq(photos', 1, Len(photos)) = photos
          /\ Len(photos') = Len(photos)
                 + Cardinality({ i \in 1..Len(results') : results'[i].photo # NoPhoto })
      ]_vars

\* a file with a two-component latitude, selected without context, has been
\* refused, and the photo that was in the collection is still there
C5_Witness ==
    /\ Len(results) = 1
    /\ results[1].context = NoContext
    /\ Len(results[1].file.gps.lat.arr) = 2
    /\ results[1].photo = NoPhoto
    /\ toasts = {"Location Missing"}
    /\ Len(photos) = 1
    /\ photos[1].id = PhotoIdOf(1)

\* C30: a PUT step never changes the id or the creatorId of the stored
\* document it addresses, leaves documents with other ids as they are, leaves
\* the store unchanged when it answers 400 or 404, and answers 400 whenever
\* the body carries an id different from the routeId of the URL.
C30_PutKeepsIdAndCreator ==
    [][Answered("PUT") =>
        LET routeId == response'.routeId
            body == response'.body
        IN  /\ \A d \in store : d.id # routeId => d \in store'
            /\ \A d \in store : d.id = routeId =>
                   \E e \in store' : /\ e._id = d._id
                                      /\ e.id = d.id
                                      /\ e.creatorId = d.creatorId
            /\ response'.status \in {400, 404} => store' = store
            /\ (response'.connected /\ body.id # "" /\ body.id # routeId)
                   => response'.status = 400]_vars

====
